---- MODULE Spec2Model ----
(***************************************************************************)
(* Generic CRUD API over three SQL dialects (SQL Server, PostgreSQL,       *)
(* MySQL/MariaDB): request layer (controllers/entidades_controller.py),    *)
(* gateway (servicios/servicio_crud.py), the three repositories            *)
(* (repositorios/repositorio_lectura_*.py) and the BCrypt helper           *)
(* (servicios/utilidades/encriptacion_bcrypt.py).                          *)
(*                                                                         *)
(* Python strings are modelled as sequences of one-character strings, so   *)
(* that strip(), lower(), count(), split() and the parsers are computed    *)
(* character by character.  Python values are tagged records [t, v].       *)
(***************************************************************************)
EXTENDS Integers, Sequences, FiniteSets, TLC

(***************************************************************************)
(* Bounds of the model.                                                    *)
(***************************************************************************)
\* largest number of fields in the payload (datos) of crear
MaxCampos == 2
\* largest number of fields in the payload (datos) of actualizar
MaxCamposActualizar == 1
\* number of distinct salts bcrypt.gensalt() can draw
MaxSal == 2

\* engines a process is let create before it takes no more requests
MaxMotores == 2

\* operations in flight at once on one repository instance
NumCorrutinas == 3

(***************************************************************************)
(* Characters and string primitives of Python used by the code.            *)
(***************************************************************************)
Digitos == <<"0", "1", "2", "3", "4", "5", "6", "7", "8", "9">>

Mayusculas ==
  <<"A", "B", "C", "D", "E", "F", "G", "H", "I", "J", "K", "L", "M",
    "N", "O", "P", "Q", "R", "S", "T", "U", "V", "W", "X", "Y", "Z">>

Minusculas ==
  <<"a", "b", "c", "d", "e", "f", "g", "h", "i", "j", "k", "l", "m",
    "n", "o", "p", "q", "r", "s", "t", "u", "v", "w", "x", "y", "z">>

EsDigito(c) == \E i \in 1..10 : Digitos[i] = c

ValorDigito(c) == (CHOOSE i \in 1..10 : Digitos[i] = c) - 1

EsBlanco(c) == c = " "

\* str.lower() on one character
MinusculaDe(c) ==
  IF \E i \in 1..26 : Mayusculas[i] = c
    THEN Minusculas[CHOOSE i \in 1..26 : Mayusculas[i] = c]
    ELSE c

\* str.lower()
Lower(s) == [i \in 1..Len(s) |-> MinusculaDe(s[i])]

\* str.strip(): drops leading and trailing whitespace
RECURSIVE LStrip(_)
LStrip(s) ==
  IF s # <<>> /\ EsBlanco(Head(s)) THEN LStrip(Tail(s)) ELSE s

RECURSIVE RStrip(_)
RStrip(s) ==
  IF s # <<>> /\ EsBlanco(s[Len(s)])
    THEN RStrip(SubSeq(s, 1, Len(s) - 1))
    ELSE s

Strip(s) == RStrip(LStrip(s))

\* str.count(c) for a one-character c
Count(s, c) == Cardinality({i \in 1..Len(s) : s[i] = c})

\* c in s
Contiene(s, c) == \E i \in 1..Len(s) : s[i] = c

\* s[:n]
Prefijo(s, n) == SubSeq(s, 1, IF Len(s) < n THEN Len(s) ELSE n)

\* str.split(c): the pieces between occurrences of c, empty pieces kept
RECURSIVE SplitDesde(_, _, _)
SplitDesde(s, c, actual) ==
  IF s = <<>> THEN <<actual>>
  ELSE IF Head(s) = c
    THEN <<actual>> \o SplitDesde(Tail(s), c, <<>>)
    ELSE SplitDesde(Tail(s), c, Append(actual, Head(s)))

Split(s, c) == SplitDesde(s, c, <<>>)

\* str.replace('Z', '+00:00')
RECURSIVE ReemplazarZ(_)
ReemplazarZ(s) ==
  IF s = <<>> THEN <<>>
  ELSE IF Head(s) = "Z"
    THEN <<"+", "0", "0", ":", "0", "0">> \o ReemplazarZ(Tail(s))
    ELSE <<Head(s)>> \o ReemplazarZ(Tail(s))

TodosDigitos(s) == s # <<>> /\ \A i \in 1..Len(s) : EsDigito(s[i])

RECURSIVE ValorDecimal(_)
ValorDecimal(s) ==
  IF s = <<>> THEN 0
  ELSE 10 * ValorDecimal(SubSeq(s, 1, Len(s) - 1)) + ValorDigito(s[Len(s)])

(***************************************************************************)
(* Python values.                                                          *)
(***************************************************************************)
PyNone == [t |-> "None", v |-> <<>>]

PyStr(s) == [t |-> "str", v |-> s]

PyInt(n) == [t |-> "int", v |-> n]

PyBool(b) == [t |-> "bool", v |-> b]

\* isinstance(x, str)
EsStr(x) == x.t = "str"

\* Python truthiness of a value: not x
Falsy(x) ==
  \/ x.t = "None"
  \/ x.t = "str" /\ x.v = <<>>
  \/ x.t = "int" /\ x.v = 0
  \/ x.t = "bool" /\ x.v = FALSE

\* the guard `not x or not x.strip()` of the gateway and repositories
VacioOBlanco(x) ==
  \/ Falsy(x)
  \/ x.t = "str" /\ Strip(x.v) = <<>>

(***************************************************************************)
(* The parsers of the Python standard library that _convertir_valor calls. *)
(* Each returns [ok, val]: ok = FALSE stands for the exception the parser  *)
(* raises on a malformed literal.                                          *)
(***************************************************************************)
Falla == [ok |-> FALSE, val |-> PyNone]

Exito(x) == [ok |-> TRUE, val |-> x]

\* an optional leading sign: <<sign, rest>>
Signo(s) ==
  IF s # <<>> /\ Head(s) = "-" THEN <<-1, Tail(s)>>
  ELSE IF s # <<>> /\ Head(s) = "+" THEN <<1, Tail(s)>>
  ELSE <<1, s>>

\* int(s): surrounding whitespace dropped, optional sign, decimal digits
ParseInt(s) ==
  LET sg == Signo(Strip(s))
  IN  IF TodosDigitos(sg[2])
        THEN Exito(PyInt(sg[1] * ValorDecimal(sg[2])))
        ELSE Falla

\* position of the first '.' of s, 0 when there is none
PosPunto(s) ==
  IF Contiene(s, ".") THEN CHOOSE i \in 1..Len(s) :
                             s[i] = "." /\ \A j \in 1..(i - 1) : s[j] # "."
                      ELSE 0

\* the digits of a numeral as numbers, most significant first
Cifrado(s) == [i \in 1..Len(s) |-> ValorDigito(s[i])]

\* a natural number is written as its digits, most significant first and
\* without leading zeros (zero is <<0>>): Python's int, Decimal and float
\* hold more digits than a machine word
RECURSIVE SinCerosIzq(_)
SinCerosIzq(a) ==
  IF Len(a) > 1 /\ Head(a) = 0 THEN SinCerosIzq(Tail(a)) ELSE a

\* a < b
Menor(a, b) ==
  \/ Len(a) < Len(b)
  \/ /\ Len(a) = Len(b)
     /\ \E i \in 1..Len(a) :
          a[i] < b[i] /\ \A j \in 1..(i - 1) : a[j] = b[j]

\* a // 2, digit by digit with the carry c coming from the left
RECURSIVE MitadCon(_, _)
MitadCon(a, c) ==
  IF a = <<>> THEN <<>>
  ELSE <<(10 * c + Head(a)) \div 2>> \o MitadCon(Tail(a), Head(a) % 2)

Mitad(a) == SinCerosIzq(MitadCon(a, 0))

\* 2 * a + c
RECURSIVE DobleCon(_, _)
DobleCon(a, c) ==
  IF a = <<>> THEN (IF c = 0 THEN <<>> ELSE <<c>>)
  ELSE LET x == 2 * a[Len(a)] + c
       IN  DobleCon(SubSeq(a, 1, Len(a) - 1), x \div 10) \o <<x % 10>>

Doble(a) == DobleCon(a, 0)

\* a + 1
RECURSIVE Sucesor(_)
Sucesor(a) ==
  IF a = <<>> THEN <<1>>
  ELSE IF a[Len(a)] < 9
    THEN SubSeq(a, 1, Len(a) - 1) \o <<a[Len(a)] + 1>>
  ELSE Sucesor(SubSeq(a, 1, Len(a) - 1)) \o <<0>>

\* 2^53: a binary64 float has a significand of 53 bits
DosA53 == <<9, 0, 0, 7, 1, 9, 9, 2, 5, 4, 7, 4, 0, 9, 9, 2>>

\* n halved until it fits the significand: the bits shifted out so far are
\* the last one (guarda) and whether any earlier one was set (resto)
RECURSIVE Reducir(_, _, _, _)
Reducir(n, desplazados, guarda, resto) ==
  IF Menor(n, DosA53)
    THEN [m |-> n, desplazados |-> desplazados, guarda |-> guarda,
          resto |-> resto]
    ELSE Reducir(Mitad(n), desplazados + 1, n[Len(n)] % 2,
                 resto \/ guarda = 1)

RECURSIVE Doblar(_, _)
Doblar(n, veces) == IF veces = 0 THEN n ELSE Doblar(Doble(n), veces - 1)

\* the binary64 nearest to n + (a fraction, nonzero iff resto), ties to even,
\* for n >= 2^53: an integer
RedondeoBinario(n, resto) ==
  LET r == Reducir(n, 0, 0, resto)
      arriba == r.guarda = 1 /\ (r.resto \/ r.m[Len(r.m)] % 2 = 1)
  IN  Doblar(IF arriba THEN Sucesor(r.m) ELSE r.m, r.desplazados)

\* digits [ '.' digits ] with at least one digit: <<ok, coefficient, exponent>>
Numeral(s) ==
  LET p == PosPunto(s)
      ent == IF p = 0 THEN s ELSE SubSeq(s, 1, p - 1)
      fra == IF p = 0 THEN <<>> ELSE SubSeq(s, p + 1, Len(s))
  IN  IF /\ ent \o fra # <<>>
         /\ \A i \in 1..Len(ent) : EsDigito(ent[i])
         /\ \A i \in 1..Len(fra) : EsDigito(fra[i])
        THEN <<TRUE, SinCerosIzq(Cifrado(ent \o fra)), 0 - Len(fra)>>
        ELSE <<FALSE, <<0>>, 0>>

\* Decimal(s): keeps the digits as written: <<sign, coefficient, exponent>>
ParseDecimal(s) ==
  LET sg == Signo(Strip(s))
      n == Numeral(sg[2])
  IN  IF n[1]
        THEN Exito([t |-> "Decimal", v |-> <<sg[1], n[2], n[3]>>])
        ELSE Falla

\* a sign, coefficient and exponent without trailing zeros in the fraction
RECURSIVE Normal(_, _, _)
Normal(sg, c, e) ==
  IF c = <<0>> THEN <<1, <<0>>, 0>>
  ELSE IF e < 0 /\ c[Len(c)] = 0
    THEN Normal(sg, SubSeq(c, 1, Len(c) - 1), e + 1)
  ELSE <<sg, c, e>>

\* the digits of c * 10^e before the decimal point, e <= 0
ParteEntera(c, e) ==
  IF Len(c) + e > 0 THEN SubSeq(c, 1, Len(c) + e) ELSE <<0>>

\* c * 10^e has a nonzero digit after the decimal point
ConFraccion(c, e) == \E i \in (Len(c) + e + 1)..Len(c) : i >= 1 /\ c[i] # 0

\* the float nearest to sg * c * 10^e (e <= 0), written as the decimal number
\* that names it. From 2^53 on a float is an integer and the number is
\* rounded to 53 significant bits; below, a number of at most 15 significant
\* digits names its own float (binary64 keeps 15 decimal digits apart), so
\* "30.50" and "30.5" are the same float.
binary64(sg, c, e) ==
  IF Menor(ParteEntera(c, e), DosA53) THEN Normal(sg, c, e)
  ELSE <<sg, RedondeoBinario(ParteEntera(c, e), ConFraccion(c, e)), 0>>

\* float(s)
ParseFloat(s) ==
  LET sg == Signo(Strip(s))
      n == Numeral(sg[2])
  IN  IF n[1]
        THEN Exito([t |-> "float", v |-> binary64(sg[1], n[2], n[3])])
        ELSE Falla

EsHex(c) == EsDigito(c) \/ MinusculaDe(c) \in {"a", "b", "c", "d", "e", "f"}

SinGuiones(s) == SelectSeq(s, LAMBDA c : c # "-")

\* UUID(s): 32 hexadecimal digits once the hyphens are removed
ParseUUID(s) ==
  LET h == SinGuiones(s)
  IN  IF Len(h) = 32 /\ \A i \in 1..32 : EsHex(h[i])
        THEN Exito([t |-> "UUID", v |-> Lower(h)])
        ELSE Falla

Bisiesto(y) == (y % 4 = 0 /\ y % 100 # 0) \/ y % 400 = 0

DiasDelMes(y, m) ==
  IF m = 2 THEN (IF Bisiesto(y) THEN 29 ELSE 28)
  ELSE IF m \in {4, 6, 9, 11} THEN 30 ELSE 31

\* date.fromisoformat(s): exactly YYYY-MM-DD with a real calendar day
ParseDate(s) ==
  IF /\ Len(s) = 10
     /\ s[5] = "-" /\ s[8] = "-"
     /\ \A i \in {1, 2, 3, 4, 6, 7, 9, 10} : EsDigito(s[i])
    THEN LET y == ValorDecimal(SubSeq(s, 1, 4))
             m == ValorDecimal(SubSeq(s, 6, 7))
             d == ValorDecimal(SubSeq(s, 9, 10))
         IN  IF y >= 1 /\ m \in 1..12 /\ d \in 1..DiasDelMes(y, m)
               THEN Exito([t |-> "date", v |-> <<y, m, d>>])
               ELSE Falla
    ELSE Falla

\* a UTC offset +HH:MM or -HH:MM: <<ok, <<minutes>>>>; the empty string is
\* "no offset" (a naive value), written <<>>
ParseOffset(s) ==
  IF s = <<>> THEN <<TRUE, <<>>>>
  ELSE IF /\ Len(s) = 6 /\ s[1] \in {"+", "-"} /\ s[4] = ":"
          /\ \A i \in {2, 3, 5, 6} : EsDigito(s[i])
          /\ ValorDecimal(SubSeq(s, 2, 3)) < 24
          /\ ValorDecimal(SubSeq(s, 5, 6)) < 60
    THEN <<TRUE, <<(IF s[1] = "-" THEN -1 ELSE 1)
                    * (60 * ValorDecimal(SubSeq(s, 2, 3))
                       + ValorDecimal(SubSeq(s, 5, 6)))>>>>
    ELSE <<FALSE, <<>>>>

\* the clock part HH:MM or HH:MM:SS, then an optional offset:
\* <<ok, <<h, m, s>>, offset>>
ParseHora(s) ==
  LET conSeg == Len(s) >= 8 /\ s[6] = ":"
      largo == IF conSeg THEN 8 ELSE 5
      off == ParseOffset(SubSeq(s, largo + 1, Len(s)))
  IN  IF /\ Len(s) >= 5 /\ s[3] = ":"
         /\ \A i \in {1, 2, 4, 5} : EsDigito(s[i])
         /\ conSeg => (EsDigito(s[7]) /\ EsDigito(s[8]))
         /\ ValorDecimal(SubSeq(s, 1, 2)) < 24
         /\ ValorDecimal(SubSeq(s, 4, 5)) < 60
         /\ conSeg => ValorDecimal(SubSeq(s, 7, 8)) < 60
         /\ off[1]
        THEN <<TRUE,
               <<ValorDecimal(SubSeq(s, 1, 2)), ValorDecimal(SubSeq(s, 4, 5)),
                 IF conSeg THEN ValorDecimal(SubSeq(s, 7, 8)) ELSE 0>>,
               off[2]>>
        ELSE <<FALSE, <<>>, <<>>>>

\* time.fromisoformat(s)
ParseTime(s) ==
  LET h == ParseHora(s)
  IN  IF h[1] THEN Exito([t |-> "time", v |-> <<h[2], h[3]>>]) ELSE Falla

\* datetime.fromisoformat(s): a date, alone (midnight) or followed by one
\* separator character and a clock part
ParseDatetime(s) ==
  LET f == ParseDate(Prefijo(s, 10))
      h == IF Len(s) > 11 THEN ParseHora(SubSeq(s, 12, Len(s)))
                          ELSE <<Len(s) = 10, <<0, 0, 0>>, <<>>>>
  IN  IF f.ok /\ h[1]
        THEN Exito([t |-> "datetime", v |-> <<f.val.v, h[2], h[3]>>])
        ELSE Falla

\* datetime.date()
FechaDe(dt) == [t |-> "date", v |-> dt.v[1]]

(***************************************************************************)
(* Type coercion of the three repositories.                                *)
(* A catalog type is the lower-cased DATA_TYPE name; SinTipo is Python's   *)
(* None (column unknown, or the lookup failed).                            *)
(***************************************************************************)
Dialectos == {"sqlserver", "postgresql", "mysql"}

SinTipo == "None"

\* the result of a call: the value returned, or the exception raised
Retorna(x) == [exc |-> "", val |-> x]

Lanza(e) == [exc |-> e, val |-> PyNone]

\* try: return <parser>  except (ValueError, TypeError): return valor
OValor(r, s) == Retorna(IF r.ok THEN r.val ELSE PyStr(s))

\* Decimal(valor) raises decimal.InvalidOperation, an ArithmeticError, which
\* `except (ValueError, TypeError)` does not catch
ODecimal(r) == IF r.ok THEN Retorna(r.val) ELSE Lanza("InvalidOperation")

Verdaderos ==
  {<<"t", "r", "u", "e">>, <<"1">>, <<"y", "e", "s">>, <<"s", "i">>}

\* _extraer_solo_fecha: [ok, val], ok = FALSE when fromisoformat raises
extraer_solo_fecha(s) ==
  IF Contiene(s, "T")
    THEN LET r == ParseDatetime(ReemplazarZ(s))
         IN  IF r.ok THEN Exito(FechaDe(r.val)) ELSE Falla
    ELSE ParseDate(Prefijo(s, 10))

\* _es_fecha_sin_hora
es_fecha_sin_hora(s) ==
  Len(s) = 10 /\ Count(s, "-") = 2 /\ ~Contiene(s, "T")

convertir_valor_sqlserver(s, tipo) ==
  IF tipo = SinTipo THEN Retorna(PyStr(s))
  ELSE IF tipo \in {"int", "bigint", "smallint", "tinyint"}
    THEN OValor(ParseInt(s), s)
  ELSE IF tipo \in {"decimal", "numeric", "money", "smallmoney"}
    THEN ODecimal(ParseDecimal(s))
  ELSE IF tipo \in {"float", "real"} THEN OValor(ParseFloat(s), s)
  ELSE IF tipo = "bit" THEN Retorna(PyBool(Lower(s) \in Verdaderos))
  ELSE IF tipo = "uniqueidentifier" THEN OValor(ParseUUID(s), s)
  ELSE IF tipo = "date" THEN OValor(extraer_solo_fecha(s), s)
  ELSE IF tipo \in {"datetime", "datetime2", "smalldatetime"}
    THEN OValor(ParseDatetime(ReemplazarZ(s)), s)
  ELSE IF tipo = "time" THEN OValor(ParseTime(s), s)
  ELSE Retorna(PyStr(s))

convertir_valor_postgresql(s, tipo) ==
  IF tipo = SinTipo THEN Retorna(PyStr(s))
  ELSE IF tipo \in {"integer", "int4", "bigint", "int8", "smallint", "int2"}
    THEN OValor(ParseInt(s), s)
  ELSE IF tipo \in {"numeric", "decimal"} THEN ODecimal(ParseDecimal(s))
  ELSE IF tipo \in {"real", "float4", "double precision", "float8"}
    THEN OValor(ParseFloat(s), s)
  ELSE IF tipo \in {"boolean", "bool"}
    THEN Retorna(PyBool(Lower(s) \in (Verdaderos \cup {<<"t">>})))
  ELSE IF tipo = "uuid" THEN OValor(ParseUUID(s), s)
  ELSE IF tipo = "date" THEN OValor(extraer_solo_fecha(s), s)
  ELSE IF tipo \in {"timestamp without time zone", "timestamp with time zone"}
    THEN OValor(ParseDatetime(ReemplazarZ(s)), s)
  ELSE IF tipo = "time" THEN OValor(ParseTime(s), s)
  ELSE Retorna(PyStr(s))

convertir_valor_mysql(s, tipo) ==
  IF tipo = SinTipo THEN Retorna(PyStr(s))
  ELSE IF tipo \in {"int", "integer", "bigint", "smallint", "tinyint",
                    "mediumint"}
    THEN OValor(ParseInt(s), s)
  ELSE IF tipo \in {"decimal", "numeric"} THEN ODecimal(ParseDecimal(s))
  ELSE IF tipo \in {"float", "double", "real"} THEN OValor(ParseFloat(s), s)
  ELSE IF tipo = "bit" THEN Retorna(PyBool(Lower(s) \in Verdaderos))
  ELSE IF tipo = "date" THEN OValor(extraer_solo_fecha(s), s)
  ELSE IF tipo \in {"datetime", "timestamp"}
    THEN OValor(ParseDatetime(ReemplazarZ(s)), s)
  ELSE IF tipo = "time" THEN OValor(ParseTime(s), s)
  ELSE Retorna(PyStr(s))

\* a _convertir_valor that binds every string as received
convertir_valor_sin_coercion(d, s, tipo) == Retorna(PyStr(s))

\* _convertir_valor of the repository the provider selects
convertir_valor(d, s, tipo) ==
  IF d = "sqlserver" THEN convertir_valor_sqlserver(s, tipo)
  ELSE IF d = "postgresql" THEN convertir_valor_postgresql(s, tipo)
  ELSE convertir_valor_mysql(s, tipo)

\* the column types for which obtener_por_clave compares only the date part
TiposFiltroFecha(d) ==
  IF d = "sqlserver" THEN {"datetime", "datetime2"}
  ELSE IF d = "postgresql"
    THEN {"timestamp without time zone", "timestamp with time zone"}
  ELSE {"datetime", "timestamp"}

\* the timestamp types of each coercion table (_convertir_valor)
TiposTimestamp(d) ==
  IF d = "sqlserver" THEN {"datetime", "datetime2", "smalldatetime"}
  ELSE IF d = "postgresql"
    THEN {"timestamp without time zone", "timestamp with time zone"}
  ELSE {"datetime", "timestamp"}

\* whether actualizar / eliminar look up the key column's type and coerce
\* the key value (SQL Server, PostgreSQL) or bind valor_clave as received
\* (MySQL/MariaDB)
ConvierteClave(d) == d # "mysql"

(***************************************************************************)
(* BCrypt helper.  A hash is the string "$2b$12$" + salt + digest; the     *)
(* digest is a one-to-one function of (salt, plaintext), here the salt     *)
(* followed by the plaintext reversed.                                     *)
(***************************************************************************)
COSTO_POR_DEFECTO == 12

Sales == 1..MaxSal

PrefijoBcrypt == <<"$", "2", "b", "$", "1", "2", "$">>

Reverso(s) == [i \in 1..Len(s) |-> s[Len(s) + 1 - i]]

\* bcrypt.hashpw(valor, salt)
hashpw(s, sal) == PrefijoBcrypt \o <<Digitos[sal + 1]>> \o Reverso(s)

\* the salt a well-formed hash carries, 0 for a malformed one
SalDe(h) ==
  IF /\ Len(h) > Len(PrefijoBcrypt) + 1
     /\ SubSeq(h, 1, Len(PrefijoBcrypt)) = PrefijoBcrypt
     /\ EsDigito(h[Len(PrefijoBcrypt) + 1])
     /\ ValorDigito(h[Len(PrefijoBcrypt) + 1]) >= 1
    THEN ValorDigito(h[Len(PrefijoBcrypt) + 1])
    ELSE 0

\* bcrypt.checkpw(valor, hash): recomputes the hash with the salt of `hash`;
\* raises ValueError("Invalid salt") on a malformed hash
checkpw(s, h) ==
  IF SalDe(h) = 0 THEN Lanza("ValueError")
  ELSE Retorna(PyBool(hashpw(s, SalDe(h)) = h))

\* encriptar(valor_original, costo), with the salt gensalt() drew
encriptar(s, costo, sal) ==
  IF s = <<>> \/ Strip(s) = <<>> THEN Lanza("ValueError")
  ELSE IF ~(4 <= costo /\ costo <= 31) THEN Lanza("ValueError")
  ELSE Retorna(PyStr(hashpw(s, sal)))

\* verificar(valor_original, hash_existente)
verificar(s, h) ==
  IF s = <<>> \/ Strip(s) = <<>> THEN Lanza("ValueError")
  ELSE IF h = <<>> \/ Strip(h) = <<>> THEN Lanza("ValueError")
  ELSE LET r == checkpw(s, h)
       IN  IF r.exc # "" THEN Retorna(PyBool(FALSE)) ELSE r

(***************************************************************************)
(* Names and literals the requests are drawn from.                         *)
(***************************************************************************)
T_usuarios == <<"u", "s", "u", "a", "r", "i", "o", "s">>

T_ventas == <<"v", "e", "n", "t", "a", "s">>

C_id == <<"i", "d">>

C_email == <<"e", "m", "a", "i", "l">>

C_edad == <<"e", "d", "a", "d">>

C_Clave == <<"C", "l", "a", "v", "e">>

C_saldo == <<"s", "a", "l", "d", "o">>

C_activo == <<"a", "c", "t", "i", "v", "o">>

C_nacido == <<"n", "a", "c", "i", "d", "o">>

C_creado == <<"c", "r", "e", "a", "d", "o">>

C_editado == <<"e", "d", "i", "t", "a", "d", "o">>

C_alta == <<"a", "l", "t", "a">>

C_hora == <<"h", "o", "r", "a">>

C_otra == <<"o", "t", "r", "a">>

C_guia == <<"g", "u", "i", "a">>

C_foto == <<"f", "o", "t", "o">>

C_lapso == <<"l", "a", "p", "s", "o">>

L_vacio == <<>>

L_blanco == <<" ", " ">>

L_30 == <<"3", "0">>

L_abc == <<"a", "b", "c">>

L_xyz == <<"x", "y", "z">>

L_true == <<"T", "r", "u", "e">>

L_30_50 == <<"3", "0", ".", "5", "0">>

L_fecha == <<"2", "0", "2", "4", "-", "0", "1", "-", "1", "5">>

L_fecha_mala == <<"2", "0", "2", "4", "-", "1", "3", "-", "4", "5">>

L_fecha_hora ==
  <<"2", "0", "2", "4", "-", "0", "1", "-", "1", "5", "T",
    "1", "0", ":", "3", "0", ":", "0", "0", "Z">>

L_hora == <<"1", "0", ":", "3", "0">>

\* a decimal of 20 significant digits: 1234567890123456789.5
L_saldo_largo ==
  <<"1", "2", "3", "4", "5", "6", "7", "8", "9", "0", "1", "2", "3", "4",
    "5", "6", "7", "8", "9", ".", "5">>

\* 1A1A1A1A-1A1A-1A1A-1A1A-1A1A1A1A1A1A
L_uuid ==
  [i \in 1..36 |-> IF i \in {9, 14, 19, 24} THEN "-"
                   ELSE IF i \in {1, 3, 5, 7, 10, 12, 15, 17, 20, 22, 25, 27,
                                  29, 31, 33, 35} THEN "1"
                   ELSE "A"]

\* campos_encriptar directives
E_clave == <<"c", "l", "a", "v", "e">>

E_lista ==
  <<" ", "C", "L", "A", "V", "E", " ", ",", ",", "e", "d", "a", "d", ",",
    "a", "c", "t", "i", "v", "o">>

(***************************************************************************)
(* The store's catalog (INFORMATION_SCHEMA.COLUMNS): the declared type of  *)
(* each column of table usuarios, per dialect; SinTipo for a column the    *)
(* catalog has no row for.                                                 *)
(***************************************************************************)
Catalogo(d, tabla, col) ==
  IF tabla # T_usuarios THEN SinTipo
  ELSE IF col = C_id THEN (IF d = "postgresql" THEN "integer" ELSE "int")
  ELSE IF col = C_edad THEN
    (IF d = "postgresql" THEN "integer"
     ELSE IF d = "sqlserver" THEN "int" ELSE "tinyint")
  ELSE IF col = C_email THEN
    (IF d = "postgresql" THEN "character varying" ELSE "varchar")
  ELSE IF col = C_Clave THEN
    (IF d = "postgresql" THEN "character varying" ELSE "varchar")
  ELSE IF col = C_saldo THEN (IF d = "sqlserver" THEN "money" ELSE "numeric")
  ELSE IF col = C_activo THEN (IF d = "postgresql" THEN "boolean" ELSE "bit")
  ELSE IF col = C_nacido THEN "date"
  ELSE IF col = C_creado THEN
    (IF d = "postgresql" THEN "timestamp without time zone" ELSE "datetime")
  ELSE IF col = C_editado THEN
    (IF d = "sqlserver" THEN "datetime2"
     ELSE IF d = "postgresql" THEN "timestamp with time zone"
     ELSE "timestamp")
  ELSE IF col = C_alta THEN
    (IF d = "sqlserver" THEN "smalldatetime"
     ELSE IF d = "postgresql" THEN "timestamp without time zone"
     ELSE "datetime")
  ELSE IF col = C_hora THEN "time"
  ELSE IF col = C_guia THEN
    (IF d = "sqlserver" THEN "uniqueidentifier"
     ELSE IF d = "postgresql" THEN "uuid" ELSE "char")
  ELSE SinTipo

(***************************************************************************)
(* State.                                                                  *)
(***************************************************************************)
VARIABLES
  proveedor,      \* ProveedorConexion().proveedor_actual: the DB_PROVIDER
                  \* token of the process
  dialecto,       \* the repository class the factory selects for it
  motores,        \* engines the process has created so far
                  \* (create_async_engine calls that returned)
  conexiones,     \* connections open right now
  conn,           \* the connection of the `async with` block the request is
                  \* in: "None", "connect" (engine.connect()) or "begin"
                  \* (engine.begin())
  transaccion,    \* the transaction of the request's write statement
  corrutinas,     \* the operations a caller runs concurrently on one
                  \* repository instance: where each one is
  pc,             \* position of the request in flight
  op,             \* the operation called and its arguments
  engine,         \* self._engine of the request's repository
  cadena,         \* whether create_async_engine accepts the connection string
  viajes,         \* database round trips issued by the request so far
  datos_finales,  \* the copy of the payload, after hashing
  idx,            \* next field of datos_finales to process
  valores,        \* the parameters bound so far
  detectado,      \* the catalog lookups made so far and what each gave
  sql,            \* the statement built
  emitida,        \* the statement was handed to the store (conn.execute)
  fallo,          \* the exception the statement's round trip raised, "" if none
  leido,          \* the row obtener_hash_contrasena fetched
  devuelto,       \* what the store answered to a SELECT / INSERT / UPDATE /
                  \* DELETE: the rows as the driver gives them, or rowcount
  resultado,      \* what the gateway operation returned or raised
  respuesta       \* the HTTP response of the request layer

vars ==
  <<proveedor, dialecto, motores, conexiones, conn, transaccion, corrutinas,
    pc, op, engine, cadena, viajes, datos_finales, idx, valores,
    detectado, sql, emitida, fallo, leido, devuelto, resultado, respuesta>>

\* results of a gateway operation
Ok(x) == [exc |-> "", msg |-> "", val |-> x, contexto |-> <<>>, causa |-> ""]

ValueError(m) ==
  [exc |-> "ValueError", msg |-> m, val |-> PyNone, contexto |-> <<>>,
   causa |-> ""]

\* raise RuntimeError(f"Error ... '{esquema}.{tabla}': {ex}") from ex
RuntimeError(m, ctx, ex) ==
  [exc |-> "RuntimeError", msg |-> m, val |-> PyNone, contexto |-> ctx,
   causa |-> ex]

\* raise HTTPException(status_code=estado, detail={...mensaje...})
HTTPException(estado, m) ==
  [exc |-> "HTTPException", msg |-> m, val |-> PyInt(estado),
   contexto |-> <<>>, causa |-> ""]

Pendiente == Ok(PyNone)

SinSql ==
  [forma |-> "", esquema |-> <<>>, tabla |-> <<>>, columna |-> <<>>,
   columnas |-> <<>>, top |-> PyNone]

\* str(ex) as the request layer puts it in "detalle"
Detalle(r) == [msg |-> r.msg, contexto |-> r.contexto, causa |-> r.causa]

SinDetalle == [msg |-> "", contexto |-> <<>>, causa |-> ""]

\* an HTTP response: status, and the fields of the body that vary
Respuesta(estado, mensaje, usuario, detalle, datos) ==
  [estado |-> estado, mensaje |-> mensaje, usuario |-> usuario,
   detalle |-> detalle, datos |-> datos]

SinRespuesta == Respuesta(0, "", <<>>, SinDetalle, PyNone)

\* what the store handed back on a single-row fetch
SinLeer == [hay |-> FALSE, v |-> PyNone]

\* result.fetchall() / result.rowcount
FilasDevueltas(filas) == [t |-> "filas", v |-> filas]

Rowcount(n) == [t |-> "rowcount", v |-> n]

SinDevolver == [t |-> "nada", v |-> <<>>]

\* a dict as a sequence of [k, v] in insertion order: d[k] = v
RECURSIVE DictSet(_, _, _)
DictSet(d, k, x) ==
  IF d = <<>> THEN <<[k |-> k, v |-> x]>>
  ELSE IF Head(d).k = k THEN <<[k |-> k, v |-> x]>> \o Tail(d)
  ELSE <<Head(d)>> \o DictSet(Tail(d), k, x)

Claves(d) == {d[i].k : i \in 1..Len(d)}

\* d[k] for a key of d
DictGet(d, k) == d[CHOOSE i \in 1..Len(d) : d[i].k = k].v

RECURSIVE Cifras(_)
Cifras(n) ==
  IF n < 10 THEN <<Digitos[n + 1]>>
  ELSE Cifras(n \div 10) \o <<Digitos[(n % 10) + 1]>>

\* str(x)
StrDe(x) ==
  IF x.t = "str" THEN x.v
  ELSE IF x.t = "int"
    THEN (IF x.v < 0 THEN <<"-">> \o Cifras(0 - x.v) ELSE Cifras(x.v))
  ELSE IF x.t = "bool"
    THEN (IF x.v THEN <<"T", "r", "u", "e">> ELSE <<"F", "a", "l", "s", "e">>)
  ELSE <<"N", "o", "n", "e">>

(***************************************************************************)
(* The row codec: what each repository does to a value of a fetched row.   *)
(* Besides the values above a driver hands back bytes (v: the bytes, each  *)
(* the ASCII character it encodes, or "\xff" for a byte that is no UTF-8)  *)
(* and timedelta (v: <<days, seconds>>).                                   *)
(***************************************************************************)
PyBytes(b) == [t |-> "bytes", v |-> b]

PyTimedelta(dias, segundos) == [t |-> "timedelta", v |-> <<dias, segundos>>]

\* n in at least `ancho` digits, zero-padded on the left
RECURSIVE Relleno(_, _)
Relleno(n, ancho) ==
  IF Len(Cifras(n)) >= ancho THEN Cifras(n)
  ELSE <<"0">> \o Relleno(n, ancho - 1)

\* a date written day first: YYYY-DD-MM
isoformat_date_dia_mes(f) ==
  Relleno(f[1], 4) \o <<"-">> \o Relleno(f[3], 2) \o <<"-">>
    \o Relleno(f[2], 2)

\* date.isoformat(): YYYY-MM-DD
isoformat_date(f) ==
  Relleno(f[1], 4) \o <<"-">> \o Relleno(f[2], 2) \o <<"-">>
    \o Relleno(f[3], 2)

\* the UTC offset of an aware value, +HH:MM or -HH:MM; nothing when naive
isoformat_offset(off) ==
  IF off = <<>> THEN <<>>
  ELSE LET m == IF off[1] < 0 THEN 0 - off[1] ELSE off[1]
       IN  <<IF off[1] < 0 THEN "-" ELSE "+">> \o Relleno(m \div 60, 2)
             \o <<":">> \o Relleno(m % 60, 2)

\* HH:MM:SS
isoformat_hora(h) ==
  Relleno(h[1], 2) \o <<":">> \o Relleno(h[2], 2) \o <<":">>
    \o Relleno(h[3], 2)

\* valor.isoformat() of a date, a datetime or a time
isoformat(x) ==
  IF x.t = "date" THEN isoformat_date(x.v)
  ELSE IF x.t = "datetime"
    THEN isoformat_date(x.v[1]) \o <<"T">> \o isoformat_hora(x.v[2])
           \o isoformat_offset(x.v[3])
  ELSE isoformat_hora(x.v[1]) \o isoformat_offset(x.v[2])

\* float(valor) of a Decimal: the float nearest to it
float_de_decimal(x) ==
  [t |-> "float", v |-> binary64(x.v[1], x.v[2], x.v[3])]

\* str(valor) of a UUID: 8-4-4-4-12
str_de_uuid(x) ==
  SubSeq(x.v, 1, 8) \o <<"-">> \o SubSeq(x.v, 9, 12) \o <<"-">>
    \o SubSeq(x.v, 13, 16) \o <<"-">> \o SubSeq(x.v, 17, 20) \o <<"-">>
    \o SubSeq(x.v, 21, 32)

\* str(valor) of a timedelta: [D day[s], ]H:MM:SS
str_de_timedelta(x) ==
  LET dias == x.v[1]
      seg == x.v[2]
      reloj == Cifras(seg \div 3600) \o <<":">>
                 \o Relleno((seg % 3600) \div 60, 2) \o <<":">>
                 \o Relleno(seg % 60, 2)
  IN  IF dias = 0 THEN reloj
      ELSE StrDe(PyInt(dias)) \o <<" ", "d", "a", "y">>
             \o (IF dias \in {1, -1} THEN <<>> ELSE <<"s">>)
             \o <<",", " ">> \o reloj

\* valor.decode('utf-8', errors='replace')
decode_utf8(x) ==
  [i \in 1..Len(x.v) |-> IF x.v[i] = "\\xff" THEN "\\ufffd" ELSE x.v[i]]

\* the inline branches of RepositorioLecturaSqlServer.obtener_filas and
\* obtener_por_clave
serializar_valor_sqlserver(x) ==
  IF x.t \in {"datetime", "date"} THEN PyStr(isoformat(x))
  ELSE IF x.t = "Decimal" THEN float_de_decimal(x)
  ELSE IF x.t = "UUID" THEN PyStr(str_de_uuid(x))
  ELSE x

\* RepositorioLecturaPostgreSQL._serializar_valor
serializar_valor_postgresql(x) ==
  IF x.t \in {"datetime", "date"} THEN PyStr(isoformat(x))
  ELSE IF x.t = "Decimal" THEN float_de_decimal(x)
  ELSE IF x.t = "UUID" THEN PyStr(str_de_uuid(x))
  ELSE x

\* RepositorioLecturaMysqlMariaDB._serializar_valor
serializar_valor_mysql(x) ==
  IF x.t \in {"datetime", "date"} THEN PyStr(isoformat(x))
  ELSE IF x.t = "time" THEN PyStr(isoformat(x))
  ELSE IF x.t = "timedelta" THEN PyStr(str_de_timedelta(x))
  ELSE IF x.t = "Decimal" THEN float_de_decimal(x)
  ELSE IF x.t = "bytes" THEN PyStr(decode_utf8(x))
  ELSE x

\* a codec that hands every value back as fetched
serializar_valor_identidad(d, x) == x

\* the codec of the repository the provider selects
serializar_valor(d, x) ==
  IF d = "sqlserver" THEN serializar_valor_sqlserver(x)
  ELSE IF d = "postgresql" THEN serializar_valor_postgresql(x)
  ELSE serializar_valor_mysql(x)

\* {col: _serializar_valor(row[i]) for i, col in enumerate(columnas)}
serializar_fila(d, fila) ==
  [i \in 1..Len(fila) |->
     [k |-> fila[i].k, v |-> serializar_valor(d, fila[i].v)]]

\* [... for row in result.fetchall()]
serializar_filas(d, filas) ==
  [i \in 1..Len(filas) |-> serializar_fila(d, filas[i])]

(***************************************************************************)
(* Schema handling.                                                        *)
(***************************************************************************)
\* ServicioCrud: esquema.strip() if esquema and esquema.strip() else None
esquema_norm(e) == IF VacioOBlanco(e) THEN PyNone ELSE PyStr(Strip(e.v))

\* a schema default that is "public" whatever the dialect
EsquemaSiemprePublic(d) == <<"p", "u", "b", "l", "i", "c">>

EsquemaPorDefecto(d) ==
  IF d = "sqlserver" THEN <<"d", "b", "o">>
  ELSE <<"p", "u", "b", "l", "i", "c">>

\* (esquema or "dbo").strip() / (esquema or "public").strip(); for
\* MySQL/MariaDB the qualifier `esquema`. or none (written <<>>)
esquema_final(d, e) ==
  IF d = "mysql" THEN (IF Falsy(e) THEN <<>> ELSE e.v)
  ELSE IF Falsy(e) THEN Strip(EsquemaPorDefecto(d))
  ELSE Strip(e.v)

\* the '{esquema}.{tabla}' (or '{tabla}') the error message carries
Contexto(d, e, tabla) ==
  IF d = "mysql" THEN tabla
  ELSE esquema_final(d, e) \o <<".">> \o tabla

\* the name of the bound parameter of payload column k
NombreParam(d, k) == IF d = "mysql" THEN <<"p", "_">> \o k ELSE k

P_valor == <<"v", "a", "l", "o", "r">>

P_valor_clave == <<"v", "a", "l", "o", "r", "_", "c", "l", "a", "v", "e">>

P_limite == <<"l", "i", "m", "i", "t", "e">>

P_valor_usuario ==
  <<"v", "a", "l", "o", "r", "_", "u", "s", "u", "a", "r", "i", "o">>

(***************************************************************************)
(* Field hashing of crear / actualizar.                                    *)
(***************************************************************************)
\* {c.strip().lower() for c in campos_encriptar.split(',') if c.strip()}
campos_a_encriptar(c) ==
  IF Falsy(c) THEN {}
  ELSE LET partes == Split(c.v, ",")
       IN  {Lower(Strip(partes[i])) :
              i \in {j \in 1..Len(partes) : Strip(partes[j]) # <<>>}}

\* whether the loop hashes field f of the payload
SeEncripta(f, c) == Lower(f.k) \in campos_a_encriptar(c) /\ ~Falsy(f.v)

\* the loop over datos_finales: [exc, val] with val the hashed copy;
\* sales[i] is the salt drawn for field i
encriptar_campos(datos, c, sales) ==
  LET r == [i \in 1..Len(datos) |->
              IF SeEncripta(datos[i], c)
                THEN encriptar(StrDe(datos[i].v), COSTO_POR_DEFECTO, sales[i])
                ELSE Retorna(datos[i].v)]
  IN  IF \E i \in 1..Len(datos) : r[i].exc # ""
        THEN Lanza("ValueError")
        ELSE Retorna([i \in 1..Len(datos) |->
                        [k |-> datos[i].k, v |-> r[i].val]])

(***************************************************************************)
(* Inputs of the requests.                                                 *)
(***************************************************************************)
Vias == {"http", "servicio"}

Tablas == {PyStr(L_vacio), PyStr(L_blanco), PyStr(T_usuarios)}

Esquemas == {PyNone, PyStr(T_ventas)}

Limites == {PyNone, PyInt(-1), PyInt(0), PyInt(5)}

ColumnasClave ==
  {PyStr(L_blanco), PyStr(C_id), PyStr(C_email), PyStr(C_saldo),
   PyStr(C_activo), PyStr(C_nacido), PyStr(C_creado), PyStr(C_editado),
   PyStr(C_alta), PyStr(C_hora), PyStr(C_guia), PyStr(C_otra)}

ValoresClave ==
  {PyStr(L_vacio), PyStr(L_blanco), PyStr(L_30), PyStr(L_abc),
   PyStr(L_true), PyStr(L_30_50), PyStr(L_fecha), PyStr(L_fecha_mala),
   PyStr(L_fecha_hora), PyStr(L_hora), PyStr(L_saldo_largo),
   PyStr(L_uuid)}

\* key columns and key values of actualizar / eliminar
ColumnasClaveEscritura == {PyStr(L_blanco), PyStr(C_id)}

TablasEscritura == {PyStr(L_blanco), PyStr(T_usuarios)}

ValoresClaveEscritura == {PyStr(L_blanco), PyStr(L_30), PyStr(L_abc)}

\* the payload columns, in the order payloads list them
OrdenColumnas == <<C_email, C_edad, C_Clave>>

ColumnasDatos == {OrdenColumnas[i] : i \in 1..Len(OrdenColumnas)}

Posicion(k) == CHOOSE i \in 1..Len(OrdenColumnas) : OrdenColumnas[i] = k

ValoresDatos == {PyNone, PyInt(0), PyStr(L_blanco), PyStr(L_30)}

CamposEncriptar == {PyNone, PyStr(E_clave), PyStr(E_lista)}

\* payloads: dicts of at most n fields, keys distinct and listed in the
\* order of OrdenColumnas
RECURSIVE Payloads(_)
Payloads(n) ==
  IF n = 0 THEN {<<>>}
  ELSE LET menores == Payloads(n - 1)
           largos == {m \in menores : Len(m) = n - 1}
       IN  menores \cup
           {Append(u[1], [k |-> u[2], v |-> u[3]]) :
              u \in {w \in largos \X ColumnasDatos \X ValoresDatos :
                       \A i \in 1..Len(w[1]) :
                         Posicion(w[1][i].k) < Posicion(w[2])}}

\* a payload whose column the catalog types as boolean / bit
DatosConActivo == {<<[k |-> C_activo, v |-> PyStr(L_abc)]>>}

Datos == Payloads(MaxCampos) \cup DatosConActivo

\* a payload whose column is named like the parameter of the key
DatosConValorClave == {<<[k |-> P_valor_clave, v |-> PyStr(L_xyz)]>>}

DatosActualizar ==
  Payloads(MaxCamposActualizar) \cup DatosConValorClave \cup DatosConActivo

CamposUsuario == {PyStr(L_blanco), PyStr(C_email)}

CamposContrasena == {PyStr(L_blanco), PyStr(C_Clave)}

Usuarios == {PyStr(L_blanco), PyStr(L_abc)}

Contrasenas == {PyStr(L_blanco), PyStr(L_abc), PyStr(L_xyz)}

\* what the password column of a matching row may hold
HashesAlmacenados ==
  {PyNone, PyStr(L_vacio), PyStr(L_blanco), PyStr(L_abc), PyInt(30),
   PyStr(hashpw(L_abc, 1)), PyStr(hashpw(L_abc, 2))}

\* rows a SELECT may return
Fila1 == <<[k |-> C_id, v |-> PyInt(30)], [k |-> C_email, v |-> PyStr(L_abc)]>>

\* a row of values as the driver hands them over: a date, a timestamp, a
\* time of day, a decimal, a unique identifier, binary data, a duration
Fila2 ==
  <<[k |-> C_nacido, v |-> [t |-> "date", v |-> <<2024, 1, 15>>]],
    [k |-> C_creado,
     v |-> [t |-> "datetime", v |-> <<<<2024, 1, 15>>, <<10, 30, 0>>, <<>>>>]],
    [k |-> C_hora, v |-> [t |-> "time", v |-> <<<<10, 30, 0>>, <<>>>>]],
    [k |-> C_saldo, v |-> [t |-> "Decimal", v |-> <<1, <<3, 0, 5, 0>>, -2>>]],
    [k |-> C_guia,
     v |-> [t |-> "UUID",
            v |-> [i \in 1..32 |-> IF i % 2 = 0 THEN "a" ELSE "1"]]],
    [k |-> C_foto, v |-> PyBytes(<<"a", "b", "\\xff">>)],
    [k |-> C_lapso, v |-> PyTimedelta(0, 5400)]>>

Filas == {<<>>, <<Fila1>>, <<Fila2>>}

\* the row the filter of obtener_por_clave matches: its key column holds
\* the value the filter was given (a timestamp of that day when the filter
\* compares dates)
FilaHallada ==
  LET x == DictGet(valores, P_valor)
  IN  <<[k |-> sql.columna,
         v |-> IF sql.forma = "SELECT_FECHA"
                 THEN [t |-> "datetime", v |-> <<x.v, <<0, 0, 0>>, <<>>>>]
                 ELSE x]>>

\* what the store may answer to the SELECT in flight
FilasPosibles ==
  IF pc = "ejecutar" /\ op.nombre = "obtener_por_clave"
    THEN Filas \cup {<<FilaHallada>>}
    ELSE Filas

\* exceptions of the driver when a round trip fails
Causas == {"DBAPIError", "PermissionError"}

\* the arguments of an operation as it was called, and datos_llamador: the
\* dict the caller passed as `datos`, as the operation leaves it
Operacion(nombre, via, tabla, esq) ==
  [nombre |-> nombre, via |-> via, nombre_tabla |-> tabla, esquema |-> esq,
   limite |-> PyNone, nombre_clave |-> PyNone, valor |-> PyNone,
   datos |-> <<>>, datos_llamador |-> <<>>, campos_encriptar |-> PyNone,
   campo_contrasena |-> PyNone, valor_contrasena |-> PyNone]

SinOperacion == Operacion("", "", PyNone, PyNone)

(***************************************************************************)
(* The factory (fabrica_repositorios).  The process reads DB_PROVIDER      *)
(* once; crear_servicio_crud() runs at every request of the endpoint.      *)
(***************************************************************************)
\* list(_REPOSITORIOS_LECTURA.keys())
Opciones ==
  <<"sqlserver", "sqlserverexpress", "localdb", "postgres", "postgresql",
    "mysql", "mariadb">>

\* _REPOSITORIOS_LECTURA.get(nombre) is None
SinRepositorio == "None"

\* a registry that serves localdb with the PostgreSQL repository
REPOSITORIOS_LECTURA_localdb_postgresql(nombre) ==
  IF nombre \in {"sqlserver", "sqlserverexpress"} THEN "sqlserver"
  ELSE IF nombre \in {"localdb", "postgres", "postgresql"} THEN "postgresql"
  ELSE IF nombre \in {"mysql", "mariadb"} THEN "mysql"
  ELSE SinRepositorio

\* _REPOSITORIOS_LECTURA.get(nombre): the repository class, named as in
\* Dialectos
REPOSITORIOS_LECTURA(nombre) ==
  IF nombre \in {"sqlserver", "sqlserverexpress", "localdb"} THEN "sqlserver"
  ELSE IF nombre \in {"postgres", "postgresql"} THEN "postgresql"
  ELSE IF nombre \in {"mysql", "mariadb"} THEN "mysql"
  ELSE SinRepositorio

\* crear_repositorio_lectura: raise ValueError(f"Proveedor '{nombre}' no
\* tiene repositorio registrado. Opciones: {list(...keys())}"); contexto
\* holds the name and the options the message quotes
ProveedorSinRepositorio(nombre) ==
  [exc |-> "ValueError",
   msg |-> "Proveedor no tiene repositorio registrado. Opciones:",
   val |-> PyNone, contexto |-> <<nombre>> \o Opciones, causa |-> ""]

\* provider tokens the process may be configured with
Proveedores == Dialectos

\* and with them the aliases and two tokens nobody registered
TodosLosProveedores ==
  {Opciones[i] : i \in 1..Len(Opciones)} \cup {"oracle", "sqlite"}

Corrutinas == 1..NumCorrutinas

\* an operation that was called and has not run yet: `paso` is the next
\* step of Programa it runs, `visto` what `self._engine is None` gave it
CorrutinaNueva == [paso |-> 1, visto |-> FALSE, resultado |-> ""]

\* the state of a process that has served no request, given its provider
Arranque ==
  /\ corrutinas = [c \in Corrutinas |-> CorrutinaNueva]
  /\ dialecto = REPOSITORIOS_LECTURA(proveedor)
  /\ motores = 0
  /\ conexiones = 0
  /\ conn = "None"
  /\ transaccion = "ninguna"
  /\ pc = "libre"
  /\ op = SinOperacion
  /\ engine = "None"
  /\ cadena = "sin_leer"
  /\ viajes = 0
  /\ datos_finales = <<>>
  /\ idx = 0
  /\ valores = <<>>
  /\ detectado = <<>>
  /\ sql = SinSql
  /\ emitida = FALSE
  /\ fallo = ""
  /\ leido = SinLeer
  /\ devuelto = SinDevolver
  /\ resultado = Pendiente
  /\ respuesta = SinRespuesta

Init == proveedor \in Proveedores /\ Arranque

(***************************************************************************)
(* Request layer: the except clauses and result mapping of each endpoint.  *)
(***************************************************************************)
RespuestaError(estado, mensaje, r) ==
  Respuesta(estado, mensaje, <<>>, Detalle(r), PyNone)

\* the except clauses the endpoints share; verificar_contrasena has no
\* ValueError clause
manejar_excepcion(o, r) ==
  IF r.exc = "HTTPException"
    THEN Respuesta(r.val.v, r.msg, <<>>, SinDetalle, PyNone)
  ELSE IF r.exc = "PermissionError"
    THEN RespuestaError(403, "Acceso denegado.", r)
  ELSE IF r.exc = "ValueError" /\ o.nombre # "verificar_contrasena"
    THEN RespuestaError(400, IF o.nombre = "crear" THEN "Datos invalidos."
                               ELSE "Parametros invalidos.", r)
  ELSE IF r.exc = "LookupError" /\ o.nombre = "listar"
    THEN RespuestaError(404, "Recurso no encontrado.", r)
  ELSE RespuestaError(500, IF o.nombre = "verificar_contrasena"
                             THEN "Error interno al verificar credenciales."
                             ELSE "Error interno del servidor.", r)

\* an endpoint layer that answers every empty result with not-found
controlador_simetrico(o, r) ==
  IF r.exc # "" THEN manejar_excepcion(o, r)
  ELSE IF o.nombre = "listar"
    THEN (IF Len(r.val.v) = 0
            THEN Respuesta(404, "", <<>>, SinDetalle, PyNone)
            ELSE Respuesta(200, "", <<>>, SinDetalle, r.val))
  ELSE IF o.nombre = "obtener_por_clave"
    THEN (IF Len(r.val.v) = 0
            THEN Respuesta(404, "No se encontro ningun registro", <<>>,
                           SinDetalle, PyNone)
            ELSE Respuesta(200, "", <<>>, SinDetalle, r.val))
  ELSE IF o.nombre = "crear"
    THEN (IF r.val.v
            THEN Respuesta(200, "Registro creado exitosamente.", <<>>,
                           SinDetalle, PyNone)
            ELSE Respuesta(500, "No se pudo crear el registro.", <<>>,
                           SinDetalle, PyNone))
  ELSE IF o.nombre \in {"actualizar", "eliminar"}
    THEN (IF r.val.v > 0
            THEN Respuesta(200, IF o.nombre = "actualizar"
                                  THEN "Registro actualizado exitosamente."
                                  ELSE "Registro eliminado exitosamente.",
                           <<>>, SinDetalle, r.val)
            ELSE Respuesta(404, "No existe un registro", <<>>, SinDetalle,
                           PyNone))
  ELSE Respuesta(IF r.val.v \in {200, 404} THEN r.val.v ELSE 401, r.msg,
                 o.valor.v, SinDetalle, PyNone)

\* the response of the endpoint of operation o to the gateway's result r
controlador(o, r) ==
  IF r.exc # "" THEN manejar_excepcion(o, r)
  ELSE IF o.nombre = "listar"
    THEN (IF Len(r.val.v) = 0
            THEN Respuesta(204, "", <<>>, SinDetalle, PyNone)
            ELSE Respuesta(200, "", <<>>, SinDetalle, r.val))
  ELSE IF o.nombre = "obtener_por_clave"
    THEN (IF Len(r.val.v) = 0
            THEN Respuesta(404, "No se encontro ningun registro", <<>>,
                           SinDetalle, PyNone)
            ELSE Respuesta(200, "", <<>>, SinDetalle, r.val))
  ELSE IF o.nombre = "crear"
    THEN (IF r.val.v
            THEN Respuesta(200, "Registro creado exitosamente.", <<>>,
                           SinDetalle, PyNone)
            ELSE Respuesta(500, "No se pudo crear el registro.", <<>>,
                           SinDetalle, PyNone))
  ELSE IF o.nombre \in {"actualizar", "eliminar"}
    THEN (IF r.val.v > 0
            THEN Respuesta(200, IF o.nombre = "actualizar"
                                  THEN "Registro actualizado exitosamente."
                                  ELSE "Registro eliminado exitosamente.",
                           <<>>, SinDetalle, r.val)
            ELSE Respuesta(404, "No existe un registro", <<>>, SinDetalle,
                           PyNone))
  ELSE Respuesta(IF r.val.v \in {200, 404} THEN r.val.v ELSE 401, r.msg,
                 o.valor.v, SinDetalle, PyNone)

\* the gateway operation returns or raises r; a request made through the
\* endpoint is answered at once (no suspension point in between)
Termina(o, r) ==
  /\ pc' = "fin"
  /\ resultado' = r
  /\ respuesta' = IF o.via = "http" THEN controlador(o, r)
                  ELSE SinRespuesta

(***************************************************************************)
(* The operations.  A request is created with crear_servicio_crud(), which *)
(* builds a new repository (no engine yet) and a new ServicioCrud; via =   *)
(* "http" is a call through the endpoint, via = "servicio" a direct call   *)
(* of the gateway.  Each start action runs the code up to the first        *)
(* database round trip.                                                    *)
(***************************************************************************)
Inicia(o) ==
  /\ pc = "libre"
  /\ motores < MaxMotores
  /\ o.via = "servicio" => dialecto # SinRepositorio
  /\ op' = o
  /\ engine' = "None"
  /\ cadena' = "sin_leer"
  /\ viajes' = 0
  /\ detectado' = <<>>
  /\ emitida' = FALSE
  /\ fallo' = ""
  /\ leido' = SinLeer
  /\ devuelto' = SinDevolver
  /\ transaccion' = "ninguna"
  /\ UNCHANGED <<proveedor, dialecto, motores, conexiones, conn, corrutinas>>

\* the operation raises before building anything
Rechaza(o, r) ==
  /\ Termina(o, r)
  /\ datos_finales' = <<>>
  /\ idx' = 0
  /\ valores' = <<>>
  /\ sql' = SinSql

\* the operation goes on to its round trips
Sigue(paso, df, vals, s) ==
  /\ pc' = paso
  /\ resultado' = Pendiente
  /\ respuesta' = SinRespuesta
  /\ datos_finales' = df
  /\ idx' = 1
  /\ valores' = vals
  /\ sql' = s

\* the guards of ServicioCrud (the repositories repeat them): the message
\* of the ValueError raised, "" when the arguments pass
validar_tabla(o) ==
  IF VacioOBlanco(o.nombre_tabla)
    THEN "El nombre de la tabla no puede estar vacio." ELSE ""

\* validar_clave without the guard of the key value
validar_clave_sin_valor(o) ==
  IF validar_tabla(o) # "" THEN validar_tabla(o)
  ELSE IF VacioOBlanco(o.nombre_clave)
    THEN "El nombre de la clave no puede estar vacio."
  ELSE ""

validar_clave(o) ==
  IF validar_tabla(o) # "" THEN validar_tabla(o)
  ELSE IF VacioOBlanco(o.nombre_clave)
    THEN "El nombre de la clave no puede estar vacio."
  ELSE IF VacioOBlanco(o.valor)
    THEN "El valor no puede estar vacio."
  ELSE ""

validar_crear(o) ==
  IF validar_tabla(o) # "" THEN validar_tabla(o)
  ELSE IF o.datos = <<>> THEN "Los datos no pueden estar vacios."
  ELSE ""

validar_actualizar(o) ==
  IF validar_clave(o) # "" THEN validar_clave(o)
  ELSE IF o.datos = <<>> THEN "Los datos no pueden estar vacios."
  ELSE ""

validar_verificar(o) ==
  IF validar_tabla(o) # "" THEN validar_tabla(o)
  ELSE IF VacioOBlanco(o.nombre_clave)
    THEN "El campo de usuario no puede estar vacio."
  ELSE IF VacioOBlanco(o.campo_contrasena)
    THEN "El campo de contrasena no puede estar vacio."
  ELSE IF VacioOBlanco(o.valor)
    THEN "El usuario no puede estar vacio."
  ELSE IF VacioOBlanco(o.valor_contrasena)
    THEN "La contrasena no puede estar vacia."
  ELSE ""

Sentencia(forma, o, columna, columnas, top) ==
  [forma |-> forma,
   esquema |-> esquema_final(dialecto, esquema_norm(o.esquema)),
   tabla |-> o.nombre_tabla.v, columna |-> columna, columnas |-> columnas,
   top |-> top]

\* ServicioCrud.listar: limite if limite and limite > 0 else None
limite_norm(l) == IF ~Falsy(l) /\ l.v > 0 THEN l ELSE PyNone

\* an obtener_filas whose default is 100 rows
limite_final_100(l) == IF Falsy(l) THEN PyInt(100) ELSE l

\* obtener_filas: limite or 1000
limite_final(l) == IF Falsy(l) THEN PyInt(1000) ELSE l

\* ServicioCrud.listar -> obtener_filas, up to conn.execute
Listar(via, tabla, esq, limite) ==
  LET o == [Operacion("listar", via, tabla, esq) EXCEPT !.limite = limite]
      lim == limite_final(limite_norm(limite))
  IN  /\ Inicia(o)
      /\ IF dialecto = SinRepositorio
           THEN Rechaza(o, ProveedorSinRepositorio(proveedor))
         ELSE IF validar_tabla(o) # ""
           THEN Rechaza(o, ValueError(validar_tabla(o)))
           ELSE Sigue("ejecutar", <<>>,
                      IF dialecto = "sqlserver" THEN <<>>
                        ELSE <<[k |-> P_limite, v |-> lim]>>,
                      Sentencia("SELECT", o, <<>>, <<>>,
                                IF dialecto = "sqlserver" THEN lim
                                  ELSE PyNone))

\* ServicioCrud.obtener_por_clave -> obtener_por_clave, up to the lookup
ObtenerPorClave(via, tabla, clave, valor, esq) ==
  LET o == [Operacion("obtener_por_clave", via, tabla, esq)
              EXCEPT !.nombre_clave = clave, !.valor = valor]
  IN  /\ Inicia(o)
      /\ IF dialecto = SinRepositorio
           THEN Rechaza(o, ProveedorSinRepositorio(proveedor))
         ELSE IF validar_clave(o) # ""
           THEN Rechaza(o, ValueError(validar_clave(o)))
           ELSE Sigue("clave", <<>>, <<>>, SinSql)

SalesDe(datos, campos) ==
  {sales \in [1..Len(datos) -> Sales] :
     \A i \in 1..Len(datos) : ~SeEncripta(datos[i], campos) => sales[i] = 1}

ColumnasDe(d) == [i \in 1..Len(d) |-> d[i].k]

\* a repository that hashes the fields in the dict it was given
\* (datos_finales = datos): df is what encriptar_campos returns
datos_del_llamador_sin_copia(datos, df) ==
  IF df.exc = "" THEN df.val ELSE datos

\* datos_finales = dict(datos): the hashing loop writes to the copy, the
\* coercion loop to `valores`; the caller's dict is left as it was
datos_del_llamador(datos, df) == datos

\* crear (endpoint) -> ServicioCrud.crear -> crear, up to the first lookup
Crear(via, tabla, datos, esq, campos, sales) ==
  LET df == encriptar_campos(datos, campos, sales)
      o == [Operacion("crear", via, tabla, esq)
              EXCEPT !.datos = datos, !.campos_encriptar = campos,
                     !.datos_llamador = datos_del_llamador(datos, df)]
  IN  /\ Inicia(o)
      /\ IF via = "http" /\ datos = <<>>
           THEN Rechaza(o, HTTPException(400,
                                      "Los datos no pueden estar vacios."))
         ELSE IF dialecto = SinRepositorio
           THEN Rechaza(o, ProveedorSinRepositorio(proveedor))
         ELSE IF validar_crear(o) # ""
           THEN Rechaza(o, ValueError(validar_crear(o)))
         ELSE IF df.exc # ""
           THEN Rechaza(o, ValueError(
                          "El valor a encriptar no puede estar vacio."))
         ELSE Sigue("campos", df.val, <<>>,
                    Sentencia("INSERT", o, <<>>, ColumnasDe(df.val), PyNone))

\* actualizar (endpoint) -> ServicioCrud.actualizar -> actualizar
Actualizar(via, tabla, clave, valor, datos, esq, campos, sales) ==
  LET df == encriptar_campos(datos, campos, sales)
      o == [Operacion("actualizar", via, tabla, esq)
              EXCEPT !.nombre_clave = clave, !.valor = valor,
                     !.datos = datos, !.campos_encriptar = campos,
                     !.datos_llamador = datos_del_llamador(datos, df)]
  IN  /\ Inicia(o)
      /\ IF via = "http" /\ datos = <<>>
           THEN Rechaza(o, HTTPException(400,
                  "Los datos de actualizacion no pueden estar vacios."))
         ELSE IF dialecto = SinRepositorio
           THEN Rechaza(o, ProveedorSinRepositorio(proveedor))
         ELSE IF validar_actualizar(o) # ""
           THEN Rechaza(o, ValueError(validar_actualizar(o)))
         ELSE IF df.exc # ""
           THEN Rechaza(o, ValueError(
                          "El valor a encriptar no puede estar vacio."))
         ELSE Sigue("campos", df.val, <<>>,
                    Sentencia("UPDATE", o, clave.v, ColumnasDe(df.val),
                              PyNone))

\* ServicioCrud.eliminar -> eliminar
Eliminar(via, tabla, clave, valor, esq) ==
  LET o == [Operacion("eliminar", via, tabla, esq)
              EXCEPT !.nombre_clave = clave, !.valor = valor]
  IN  /\ Inicia(o)
      /\ IF dialecto = SinRepositorio
           THEN Rechaza(o, ProveedorSinRepositorio(proveedor))
         ELSE IF validar_clave(o) # ""
           THEN Rechaza(o, ValueError(validar_clave(o)))
         ELSE IF ConvierteClave(dialecto)
           THEN Sigue("clave", <<>>, <<>>,
                      Sentencia("DELETE", o, clave.v, <<>>, PyNone))
         ELSE Sigue("ejecutar", <<>>,
                    <<[k |-> P_valor_clave, v |-> valor]>>,
                    Sentencia("DELETE", o, clave.v, <<>>, PyNone))

\* ServicioCrud.verificar_contrasena -> obtener_hash_contrasena; the user
\* column and value are kept in nombre_clave and valor
\* (cu, cc, vu, vc: campo_usuario, campo_contrasena, valor_usuario,
\* valor_contrasena)
VerificarContrasena(via, tabla, cu, cc, vu, vc, esq) ==
  LET o == [Operacion("verificar_contrasena", via, tabla, esq)
              EXCEPT !.nombre_clave = cu,
                     !.valor = vu,
                     !.campo_contrasena = cc,
                     !.valor_contrasena = vc]
  IN  /\ Inicia(o)
      /\ IF dialecto = SinRepositorio
           THEN Rechaza(o, ProveedorSinRepositorio(proveedor))
         ELSE IF validar_verificar(o) # ""
           THEN Rechaza(o, ValueError(validar_verificar(o)))
           ELSE Sigue("ejecutar", <<>>,
                      <<[k |-> P_valor_usuario, v |-> vu]>>,
                      Sentencia("SELECT_HASH", o, cu.v, <<cc.v>>, PyNone))

(***************************************************************************)
(* Database round trips.  The environment decides each one: "ok", the      *)
(* engine cannot be created ("falla_engine": create_async_engine rejects   *)
(* the connection string, now and on every later call of the request), or  *)
(* connecting / executing fails ("falla_consulta").                        *)
(***************************************************************************)
Ambientes == {"ok", "falla_engine", "falla_consulta"}

\* the round trip the request is about to make writes
EsEscritura ==
  pc = "ejecutar" /\ op.nombre \in {"crear", "actualizar", "eliminar"}

\* an `async with` that keeps the connection when its block is left
aexit_sin_cerrar(n) == n

\* leaving `async with engine.connect() / engine.begin() as conn`, by
\* return or by exception, gives the connection back
aexit(n) == n - 1

\* a transaction that commits however its block is left
begin_aexit_siempre_commit(falla) == "confirmada"

\* leaving `async with engine.begin()`: commit when the block ends, rollback
\* when it raises
begin_aexit(falla) == IF falla THEN "revertida" ELSE "confirmada"

\* engine = await self._obtener_engine() (the engine is created when
\* self._engine is None) and entering `async with engine.connect()` or,
\* for the write statement, `async with engine.begin()`
Conectar ==
  /\ pc \in {"campos", "clave", "ejecutar"}
  /\ pc = "campos" => EsStr(datos_finales[idx].v)
  /\ conn = "None"
  /\ cadena # "invalida"
  /\ engine' = "creado"
  /\ cadena' = "valida"
  /\ motores' = IF engine = "None" THEN motores + 1 ELSE motores
  /\ conexiones' = conexiones + 1
  /\ conn' = IF EsEscritura THEN "begin" ELSE "connect"
  /\ transaccion' = IF EsEscritura THEN "abierta" ELSE transaccion
  /\ UNCHANGED <<proveedor, dialecto, corrutinas, pc, op, viajes,
                 datos_finales, idx, valores, detectado, sql, emitida, fallo,
                 leido, devuelto, resultado, respuesta>>

AmbientePosible(amb) ==
  IF amb = "falla_engine"
    THEN conn = "None" /\ engine = "None" /\ cadena # "valida"
    ELSE conn # "None"

\* the rest of a round trip: _obtener_engine raises, or conn.execute on the
\* connection Conectar opened and the end of the `async with` block
ViajeDeIda(amb) ==
  /\ AmbientePosible(amb)
  /\ cadena' = IF amb = "falla_engine" THEN "invalida" ELSE cadena
  /\ viajes' = viajes + (IF amb = "falla_engine" THEN 0 ELSE 1)
  /\ conexiones' = IF amb = "falla_engine" THEN conexiones
                   ELSE aexit(conexiones)
  /\ conn' = "None"
  /\ UNCHANGED <<proveedor, dialecto, motores, engine, corrutinas>>

\* _detectar_tipo_columna without its `except Exception: return None`
detectar_tipo_columna_sin_except(d, tabla, col, amb) ==
  [exc |-> IF amb = "ok" THEN "" ELSE "DBAPIError",
   tipo |-> IF amb = "ok" THEN Catalogo(d, tabla, col) ELSE SinTipo]

\* _detectar_tipo_columna: [exc, tipo]; every exception is caught and gives
\* None
detectar_tipo_columna(d, tabla, col, amb) ==
  [exc |-> "",
   tipo |-> IF amb = "ok" THEN Catalogo(d, tabla, col) ELSE SinTipo]

\* the :esquema the catalog query is given; MySQL/MariaDB's query names
\* none (TABLE_SCHEMA = DATABASE())
esquema_busqueda(d, e) == IF d = "mysql" THEN <<>> ELSE esquema_final(d, e)

Deteccion(col, t, amb) ==
  [columna |-> col, tipo |-> t.tipo, fallo |-> amb # "ok",
   esquema |-> esquema_busqueda(dialecto, esquema_norm(op.esquema))]

\* the verb of the RuntimeError message of each operation
Verbo(nombre) ==
  IF nombre = "listar" THEN "Error al consultar"
  ELSE IF nombre = "obtener_por_clave" THEN "Error al filtrar"
  ELSE IF nombre = "crear" THEN "Error al insertar en"
  ELSE IF nombre = "actualizar" THEN "Error al actualizar"
  ELSE IF nombre = "eliminar" THEN "Error al eliminar de"
  ELSE "Error al obtener hash de"

\* an `except Exception` that swallows the failure and returns None
ErrorTragado(ex) == Ok(PyNone)

\* except Exception as ex: raise RuntimeError(...) from ex
ErrorDeOperacion(ex) ==
  RuntimeError(Verbo(op.nombre),
               Contexto(dialecto, esquema_norm(op.esquema), op.nombre_tabla.v),
               ex)

\* a loop that hands over to the statement after its first field
TrasCampoSinEsperar ==
  IF op.nombre = "actualizar" /\ ConvierteClave(dialecto) THEN "clave"
  ELSE "ejecutar"

\* where the operation goes after field idx of datos_finales
TrasCampo ==
  IF idx < Len(datos_finales) THEN "campos"
  ELSE IF op.nombre = "actualizar" /\ ConvierteClave(dialecto) THEN "clave"
  ELSE "ejecutar"

\* valores after field k is bound to x; MySQL/MariaDB's actualizar binds
\* valor_clave as received once the fields are done
ValoresTrasCampo(k, x) ==
  LET v1 == DictSet(valores, NombreParam(dialecto, k), x)
  IN  IF /\ idx = Len(datos_finales) /\ op.nombre = "actualizar"
         /\ ~ConvierteClave(dialecto)
        THEN DictSet(v1, P_valor_clave, op.valor)
        ELSE v1

\* crear / actualizar: a string field, its type lookup and its conversion
DetectarTipoCampo(amb) ==
  /\ pc = "campos"
  /\ EsStr(datos_finales[idx].v)
  /\ ViajeDeIda(amb)
  /\ LET f == datos_finales[idx]
         t == detectar_tipo_columna(dialecto, op.nombre_tabla.v, f.k, amb)
         c == IF t.exc # "" THEN Lanza(t.exc)
              ELSE convertir_valor(dialecto, f.v.v, t.tipo)
     IN  /\ detectado' = Append(detectado, Deteccion(f.k, t, amb))
         /\ IF c.exc # ""
              THEN /\ Termina(op, ErrorDeOperacion(c.exc))
                   /\ UNCHANGED <<valores, idx>>
              ELSE /\ pc' = TrasCampo
                   /\ valores' = ValoresTrasCampo(f.k, c.val)
                   /\ idx' = idx + 1
                   /\ UNCHANGED <<resultado, respuesta>>
  /\ UNCHANGED <<op, datos_finales, sql, emitida, fallo, leido, devuelto,
                 transaccion>>

\* crear / actualizar: a field that is None or not a string is bound as is
PasarCampo ==
  /\ pc = "campos"
  /\ ~EsStr(datos_finales[idx].v)
  /\ pc' = TrasCampo
  /\ valores' = ValoresTrasCampo(datos_finales[idx].k, datos_finales[idx].v)
  /\ idx' = idx + 1
  /\ UNCHANGED <<proveedor, dialecto, motores, conexiones, conn,
                 transaccion, corrutinas, op, engine, cadena, viajes,
                 datos_finales, detectado, sql, emitida, fallo, leido,
                 devuelto, resultado, respuesta>>

\* obtener_por_clave after the lookup: [exc, sql, val]
filtro_por_clave(d, o, tipo) ==
  IF tipo \in TiposFiltroFecha(d) /\ es_fecha_sin_hora(o.valor.v)
    THEN LET r == extraer_solo_fecha(o.valor.v)
         IN  [exc |-> IF r.ok THEN "" ELSE "ValueError",
              forma |-> "SELECT_FECHA", val |-> r.val]
    ELSE LET c == convertir_valor(d, o.valor.v, tipo)
         IN  [exc |-> c.exc, forma |-> "SELECT_CLAVE", val |-> c.val]

\* obtener_por_clave, actualizar, eliminar: the lookup of the key column
DetectarTipoClave(amb) ==
  /\ pc = "clave"
  /\ ViajeDeIda(amb)
  /\ LET col == op.nombre_clave.v
         t == detectar_tipo_columna(dialecto, op.nombre_tabla.v, col, amb)
         c == IF t.exc # "" THEN [exc |-> t.exc, forma |-> "", val |-> PyNone]
              ELSE IF op.nombre = "obtener_por_clave"
                THEN filtro_por_clave(dialecto, op, t.tipo)
              ELSE LET r == convertir_valor(dialecto, op.valor.v, t.tipo)
                   IN  [exc |-> r.exc, forma |-> sql.forma, val |-> r.val]
     IN  /\ detectado' = Append(detectado, Deteccion(col, t, amb))
         /\ IF c.exc # ""
              THEN /\ Termina(op, ErrorDeOperacion(c.exc))
                   /\ UNCHANGED <<valores, sql>>
              ELSE /\ pc' = "ejecutar"
                   /\ valores' =
                        DictSet(valores,
                                IF op.nombre = "obtener_por_clave"
                                  THEN P_valor ELSE P_valor_clave,
                                c.val)
                   /\ sql' = IF op.nombre = "obtener_por_clave"
                               THEN Sentencia(c.forma, op, col, <<>>, PyNone)
                               ELSE sql
                   /\ UNCHANGED <<resultado, respuesta>>
  /\ UNCHANGED <<op, datos_finales, idx, emitida, fallo, leido, devuelto,
                 transaccion>>

\* the statement's own round trip is common to the four actions below
Ejecuta(amb, causa) ==
  /\ pc = "ejecutar"
  /\ ViajeDeIda(amb)
  /\ emitida' = (amb # "falla_engine")
  /\ fallo' = causa
  /\ transaccion' = IF conn = "begin" THEN begin_aexit(amb # "ok")
                    ELSE transaccion
  /\ UNCHANGED <<op, datos_finales, idx, valores, detectado, sql>>

\* obtener_filas / obtener_por_clave: the rows, through the row codec
EjecutarConsulta(filas) ==
  /\ op.nombre \in {"listar", "obtener_por_clave"}
  /\ Ejecuta("ok", "")
  /\ devuelto' = FilasDevueltas(filas)
  /\ Termina(op, Ok([t |-> "list", v |-> serializar_filas(dialecto, filas)]))
  /\ UNCHANGED leido

\* a write that treats "no row matched" as an error
resultado_escritura_estricto(nombre, rowcount) ==
  IF nombre = "crear" THEN Ok(PyBool(rowcount > 0))
  ELSE IF rowcount = 0
       THEN [exc |-> "LookupError", msg |-> "", val |-> PyNone,
             contexto |-> <<>>, causa |-> ""]
  ELSE Ok(PyInt(rowcount))

\* crear: return result.rowcount > 0; actualizar / eliminar: return
\* result.rowcount
resultado_escritura(nombre, rowcount) ==
  IF nombre = "crear" THEN Ok(PyBool(rowcount > 0)) ELSE Ok(PyInt(rowcount))

EjecutarEscritura(rowcount) ==
  /\ op.nombre \in {"crear", "actualizar", "eliminar"}
  /\ Ejecuta("ok", "")
  /\ Termina(op, resultado_escritura(op.nombre, rowcount))
  /\ devuelto' = Rowcount(rowcount)
  /\ UNCHANGED leido

\* a (codigo, mensaje) pair returned by ServicioCrud.verificar_contrasena
Tupla(codigo, mensaje) ==
  [exc |-> "", msg |-> mensaje, val |-> PyInt(codigo), contexto |-> <<>>,
   causa |-> ""]

\* obtener_hash_contrasena: str(row[0]) if row and row[0] else None
hash_almacenado(fila) ==
  IF fila.hay /\ ~Falsy(fila.v) THEN PyStr(StrDe(fila.v)) ELSE PyNone

\* a verificar_contrasena whose "incorrect" message quotes the stored hash
veredicto_con_hash(contrasena, h) ==
  IF h = PyNone THEN Tupla(404, "Usuario no encontrado.")
  ELSE LET r == verificar(contrasena.v, h.v)
       IN  IF r.exc # ""
             THEN ValueError("El hash existente no puede estar vacio.")
           ELSE IF r.val.v THEN Tupla(200, "Contrasena valida.")
           ELSE Tupla(401, h.v)

\* ServicioCrud.verificar_contrasena once the hash is fetched
veredicto(contrasena, h) ==
  IF h = PyNone THEN Tupla(404, "Usuario no encontrado.")
  ELSE LET r == verificar(contrasena.v, h.v)
       IN  IF r.exc # ""
             THEN ValueError("El hash existente no puede estar vacio.")
           ELSE IF r.val.v THEN Tupla(200, "Contrasena valida.")
           ELSE Tupla(401, "Contrasena incorrecta.")

\* verificar_contrasena: the fetch of the stored hash and the verdict
EjecutarHash(fila) ==
  /\ op.nombre = "verificar_contrasena"
  /\ Ejecuta("ok", "")
  /\ leido' = fila
  /\ UNCHANGED devuelto
  /\ Termina(op, veredicto(op.valor_contrasena, hash_almacenado(fila)))

\* the statement's round trip fails: the engine cannot be created, or the
\* driver raises `causa`
FallaEjecucion(amb, causa) ==
  /\ amb # "ok"
  /\ amb = "falla_engine" => causa = "ArgumentError"
  /\ amb = "falla_consulta" => causa \in Causas
  /\ Ejecuta(amb, causa)
  /\ Termina(op, ErrorDeOperacion(causa))
  /\ UNCHANGED <<leido, devuelto>>

\* the request is over: its service and repository are dropped
Cerrar ==
  /\ pc = "fin"
  /\ pc' = "libre"
  /\ op' = SinOperacion
  /\ engine' = "None"
  /\ cadena' = "sin_leer"
  /\ viajes' = 0
  /\ datos_finales' = <<>>
  /\ idx' = 0
  /\ valores' = <<>>
  /\ detectado' = <<>>
  /\ sql' = SinSql
  /\ emitida' = FALSE
  /\ fallo' = ""
  /\ leido' = SinLeer
  /\ devuelto' = SinDevolver
  /\ resultado' = Pendiente
  /\ respuesta' = SinRespuesta
  /\ transaccion' = "ninguna"
  /\ UNCHANGED <<proveedor, dialecto, motores, conexiones, conn, corrutinas>>

FilasHash == {SinLeer} \cup {[hay |-> TRUE, v |-> h] : h \in HashesAlmacenados}

\* the requests a caller may make while no request is in flight
PedirListar ==
  /\ pc = "libre"
  /\ \E via \in Vias, tabla \in Tablas, esq \in Esquemas, limite \in Limites :
       Listar(via, tabla, esq, limite)

PedirObtenerPorClave ==
  /\ pc = "libre"
  /\ \E via \in Vias, tabla \in Tablas, clave \in ColumnasClave,
        valor \in ValoresClave, esq \in Esquemas :
       ObtenerPorClave(via, tabla, clave, valor, esq)

PedirCrear ==
  /\ pc = "libre"
  /\ \E via \in Vias, tabla \in TablasEscritura, datos \in Datos,
        esq \in {PyNone}, campos \in CamposEncriptar :
       \E sales \in SalesDe(datos, campos) :
         Crear(via, tabla, datos, esq, campos, sales)

PedirActualizar ==
  /\ pc = "libre"
  /\ \E via \in Vias, tabla \in TablasEscritura,
        clave \in ColumnasClaveEscritura, valor \in ValoresClaveEscritura,
        datos \in DatosActualizar, esq \in {PyNone},
        campos \in CamposEncriptar :
       \E sales \in SalesDe(datos, campos) :
         Actualizar(via, tabla, clave, valor, datos, esq, campos, sales)

PedirEliminar ==
  /\ pc = "libre"
  /\ \E via \in Vias, tabla \in Tablas, clave \in ColumnasClaveEscritura,
        valor \in ValoresClaveEscritura, esq \in Esquemas :
       Eliminar(via, tabla, clave, valor, esq)

PedirVerificarContrasena ==
  /\ pc = "libre"
  /\ \E via \in Vias, tabla \in Tablas, cu \in CamposUsuario,
        cc \in CamposContrasena, vu \in Usuarios, vc \in Contrasenas,
        esq \in Esquemas :
       VerificarContrasena(via, tabla, cu, cc, vu, vc, esq)

Next ==
  \/ PedirListar
  \/ PedirObtenerPorClave
  \/ PedirCrear
  \/ PedirActualizar
  \/ PedirEliminar
  \/ PedirVerificarContrasena
  \/ Conectar
  \/ \E amb \in Ambientes : DetectarTipoCampo(amb)
  \/ PasarCampo
  \/ \E amb \in Ambientes : DetectarTipoClave(amb)
  \/ \E filas \in FilasPosibles : EjecutarConsulta(filas)
  \/ \E rowcount \in 0..1 : EjecutarEscritura(rowcount)
  \/ \E fila \in FilasHash : EjecutarHash(fila)
  \/ \E amb \in Ambientes, causa \in Causas \cup {"ArgumentError"} :
       FallaEjecucion(amb, causa)
  \/ Cerrar

Spec == Init /\ [][Next]_vars

(***************************************************************************)
(* Properties.                                                             *)
(***************************************************************************)
OperacionesCrud ==
  {"listar", "obtener_por_clave", "crear", "actualizar", "eliminar"}

\* a required string input of the operation is empty or whitespace-only, or
\* the payload of crear / actualizar is empty
EntradaInvalida(o) ==
  \/ VacioOBlanco(o.nombre_tabla)
  \/ /\ o.nombre \in {"obtener_por_clave", "actualizar", "eliminar"}
     /\ (VacioOBlanco(o.nombre_clave) \/ VacioOBlanco(o.valor))
  \/ o.nombre \in {"crear", "actualizar"} /\ o.datos = <<>>

\* no engine, no catalog lookup, no statement execution
SinEntradaSalida ==
  /\ engine = "None"
  /\ cadena = "sin_leer"
  /\ viajes = 0
  /\ detectado = <<>>
  /\ ~emitida

\* C1: a call of listar, obtener_por_clave, crear, actualizar or eliminar of
\* the gateway with an empty or whitespace-only table name, key column or
\* key value, or with an empty payload, has failed with ValueError as soon
\* as it has started, and at that moment no engine exists and no round trip
\* (catalog lookup or statement execution) has been issued.  (Through the
\* endpoint an empty payload is rejected with 400 before the gateway is
\* called; no I/O has happened then either.)
C1_ValidacionSinEntradaSalida ==
  (pc # "libre" /\ op.nombre \in OperacionesCrud /\ EntradaInvalida(op)) =>
    /\ pc = "fin"
    /\ SinEntradaSalida
    /\ \/ resultado.exc = "ValueError"
       \/ /\ op.via = "http" /\ op.datos = <<>>
          /\ op.nombre \in {"crear", "actualizar"}
          /\ resultado.exc = "HTTPException" /\ resultado.val = PyInt(400)

\* actualizar called on the gateway with a whitespace-only key value and
\* everything else in order has raised ValueError without any I/O
C1_Testigo ==
  /\ pc = "fin"
  /\ op.nombre = "actualizar" /\ op.via = "servicio"
  /\ ~VacioOBlanco(op.nombre_tabla) /\ ~VacioOBlanco(op.nombre_clave)
  /\ op.datos # <<>>
  /\ VacioOBlanco(op.valor)
  /\ resultado.exc = "ValueError"
  /\ SinEntradaSalida

\* the catalog type of the key column of the operation in flight
TipoDeClave == Catalogo(dialecto, op.nombre_tabla.v, op.nombre_clave.v)

\* the last catalog lookup made was that of the key column, and it answered
ClaveDetectada ==
  /\ detectado # <<>>
  /\ detectado[Len(detectado)].columna = op.nombre_clave.v
  /\ ~detectado[Len(detectado)].fallo

\* C2: in every dialect, once actualizar or eliminar is about to execute its
\* statement, the type of the key column has been looked up in the catalog
\* and, when the catalog answered and the key value converts, valor_clave
\* is bound to the converted value (an integer for an int column), not to
\* the request string.
C2_ClaveConvertida ==
  (pc = "ejecutar" /\ op.nombre \in {"actualizar", "eliminar"}) =>
    /\ \E i \in 1..Len(detectado) : detectado[i].columna = op.nombre_clave.v
    /\ LET c == convertir_valor(dialecto, op.valor.v, TipoDeClave)
       IN  (ClaveDetectada /\ c.exc = "") =>
             DictGet(valores, P_valor_clave) = c.val

\* C3: in every dialect, obtener_por_clave on a key column whose catalog type
\* is one of the timestamp types of the dialect's coercion table, with a key
\* value of the form YYYY-MM-DD, builds the date-truncated predicate and
\* binds a date.
C3_FiltroSoloFecha ==
  ( /\ pc = "ejecutar" /\ op.nombre = "obtener_por_clave"
    /\ ClaveDetectada
    /\ TipoDeClave \in TiposTimestamp(dialecto)
    /\ es_fecha_sin_hora(op.valor.v) ) =>
    /\ sql.forma = "SELECT_FECHA"
    /\ DictGet(valores, P_valor).t = "date"

\* this step made a catalog lookup
HizoBusqueda == Len(detectado') = Len(detectado) + 1

\* the parameter and the string whose type the step at pc looks up
ParametroEnCurso ==
  IF pc = "campos" THEN NombreParam(dialecto, datos_finales[idx].k)
  ELSE IF op.nombre = "obtener_por_clave" THEN P_valor
  ELSE P_valor_clave

CadenaEnCurso == IF pc = "campos" THEN datos_finales[idx].v ELSE op.valor

\* C4: in obtener_por_clave, crear, actualizar and eliminar, a catalog lookup
\* that fails (the engine cannot be created, or connecting / querying
\* raises) yields no type (None), does not end the operation, and leaves
\* the string as received bound to its parameter while the operation moves
\* on towards the execution of its statement.
C4_BusquedaFallidaNoAborta ==
  [][(HizoBusqueda /\ detectado'[Len(detectado')].fallo) =>
       /\ detectado'[Len(detectado')].tipo = SinTipo
       /\ pc' \in {"campos", "clave", "ejecutar"}
       /\ resultado' = Pendiente
       /\ DictGet(valores', ParametroEnCurso) = CadenaEnCurso]_vars

\* eliminar whose lookup of the int key column failed has executed its
\* DELETE with the string as received bound, and returned normally
C4_Testigo ==
  /\ pc = "fin" /\ op.nombre = "eliminar"
  /\ detectado # <<>> /\ detectado[Len(detectado)].fallo
  /\ TipoDeClave = "int"
  /\ convertir_valor(dialecto, op.valor.v, TipoDeClave).val # op.valor
  /\ DictGet(valores, P_valor_clave) = op.valor
  /\ emitida /\ fallo = ""
  /\ resultado.exc = ""

\* the exceptions a parser raises on a malformed literal
ErroresDeConversion == {"ValueError", "InvalidOperation"}

\* C5: a string that does not convert to the type of its column never ends
\* an operation: on every converting path (the date-only path of
\* obtener_por_clave included) the string as received is bound and the
\* operation goes on to its statement, so no operation ends with an error
\* caused by a conversion.
C5_ConversionFallidaNoAborta ==
  pc = "fin" => resultado.causa \notin ErroresDeConversion

\* the payload fields of the operation that campos_encriptar names,
\* compared case-insensitively
CamposNombrados ==
  {i \in 1..Len(op.datos) :
     Lower(op.datos[i].k) \in campos_a_encriptar(op.campos_encriptar)}

\* C6: when crear or actualizar is about to execute its statement, every
\* payload field that campos_encriptar names is bound, whatever its payload
\* value, to something other than that value: to a hash that verificar
\* accepts for the value.
C6_NuncaTextoPlano ==
  (pc = "ejecutar" /\ op.nombre \in {"crear", "actualizar"}) =>
    \A i \in CamposNombrados :
      LET ligado == DictGet(valores, NombreParam(dialecto, op.datos[i].k))
      IN  /\ ligado # op.datos[i].v
          /\ ligado.t = "str"
          /\ verificar(StrDe(op.datos[i].v), ligado.v) = Retorna(PyBool(TRUE))

\* the statement of verificar_contrasena was executed by the store
HashConsultado ==
  /\ pc = "fin" /\ op.nombre = "verificar_contrasena"
  /\ emitida /\ fallo = ""

\* C7: once the store has executed the SELECT of verificar_contrasena, the
\* gateway returns one of 404, 401, 200 and raises nothing: 404 exactly
\* when no row matched the user value, 200 exactly when a row matched and
\* the password verifies against the stored hash, 401 otherwise.
C7_TresDesenlaces ==
  HashConsultado =>
    /\ resultado.exc = ""
    /\ resultado.val.v \in {200, 401, 404}
    /\ (resultado.val.v = 404) <=> ~leido.hay
    /\ (resultado.val.v = 200) <=>
         (leido.hay /\ checkpw(op.valor_contrasena.v, StrDe(leido.v))
                        = Retorna(PyBool(TRUE)))

\* C8: verificar fails closed: for a stored hash that is not a well-formed
\* bcrypt hash (a whitespace-only string included) it returns False and
\* never raises.
C8_VerificarFallaCerrado ==
  LET h == hash_almacenado(leido)
  IN  (HashConsultado /\ h # PyNone /\ SalDe(h.v) = 0) =>
        verificar(op.valor_contrasena.v, h.v) = Retorna(PyBool(FALSE))

\* the verify outcome with `fila` in the store: what the gateway raises or
\* the code it returns
Desenlace(contrasena, fila) ==
  LET r == veredicto(contrasena, hash_almacenado(fila))
  IN  <<r.exc, r.val>>

\* the response of the endpoint had the store held `fila`
RespuestaCon(o, fila) ==
  controlador(o, veredicto(o.valor_contrasena, hash_almacenado(fila)))

\* C9: the response of the verify endpoint is the one any other store would
\* have produced that differs in the stored hash of the user and gives the
\* same outcome (match, mismatch, not found): status and body, error
\* details included, do not depend on the stored hash beyond the outcome.
C9_RespuestaSinHash ==
  (HashConsultado /\ op.via = "http") =>
    \A otra \in FilasHash :
      (Desenlace(op.valor_contrasena, otra)
         = Desenlace(op.valor_contrasena, leido))
        => RespuestaCon(op, otra) = respuesta

\* a wrong password was answered 401 against one stored hash while another
\* stored hash gives the same outcome
C9_Testigo ==
  /\ HashConsultado /\ op.via = "http"
  /\ leido = [hay |-> TRUE, v |-> PyStr(hashpw(L_abc, 1))]
  /\ op.valor_contrasena = PyStr(L_xyz)
  /\ respuesta.estado = 401
  /\ \E otra \in FilasHash :
       /\ otra # leido /\ otra.hay
       /\ Desenlace(op.valor_contrasena, otra)
            = Desenlace(op.valor_contrasena, leido)

\* s ends with t
TerminaEn(s, t) ==
  Len(t) <= Len(s) /\ SubSeq(s, Len(s) - Len(t) + 1, Len(s)) = t

\* C10: in every operation of every dialect, when the round trip of the
\* operation's own statement fails (the engine cannot be created, or
\* connecting / executing raises), the operation ends with RuntimeError
\* whose message names the table and whose cause is the failure; it never
\* returns a value.
C10_FalloDeEjecucionSeEleva ==
  (pc = "fin" /\ fallo # "") =>
    /\ resultado.exc = "RuntimeError"
    /\ resultado.causa = fallo
    /\ TerminaEn(resultado.contexto, op.nombre_tabla.v)
    /\ resultado.val = PyNone

\* the INSERT of crear was rejected by the store and crear raised
C10_Testigo ==
  /\ pc = "fin" /\ op.nombre = "crear"
  /\ emitida /\ fallo = "DBAPIError"
  /\ resultado.exc = "RuntimeError" /\ resultado.causa = "DBAPIError"

\* C11: when the store rejects the statement of an operation with a
\* permission error, the gateway raises that permission error itself (not
\* wrapped in another error) and the endpoint answers 403, not 500.
C11_PermisoDenegadoEs403 ==
  (pc = "fin" /\ fallo = "PermissionError") =>
    /\ resultado.exc = "PermissionError"
    /\ op.via = "http" => respuesta.estado = 403

\* C12: on each of the six endpoints, a ValueError that the gateway raises
\* when it validates its inputs (before any I/O) is answered 400, never 500.
C12_ValidacionEs400 ==
  (pc = "fin" /\ op.via = "http" /\ resultado.exc = "ValueError"
     /\ SinEntradaSalida) =>
    respuesta.estado = 400

\* the row limit of the SELECT of listar: TOP (n) in the text for SQL
\* Server, the parameter :limite for PostgreSQL and MySQL/MariaDB
LimiteUsado ==
  IF dialecto = "sqlserver" THEN sql.top ELSE DictGet(valores, P_limite)

ListarConSentencia ==
  op.nombre = "listar" /\ pc \in {"ejecutar", "fin"} /\ sql.forma = "SELECT"

\* C13 (as stated): in every dialect listar uses the limit 1000 when the
\* caller gives none and exactly the caller's limit whenever one is given.
C13_LimiteDelLlamador ==
  ListarConSentencia =>
    LimiteUsado = IF op.limite = PyNone THEN PyInt(1000) ELSE op.limite

\* C13 (amended): in every dialect listar uses the limit 1000 when the
\* caller gives no limit or a limit that is not positive (0 or negative),
\* and exactly the caller's limit when it is positive.
C13_LimitePositivoODefecto ==
  ListarConSentencia =>
    LimiteUsado = IF op.limite = PyNone THEN PyInt(1000)
                  ELSE IF op.limite.v <= 0 THEN PyInt(1000)
                  ELSE op.limite

\* listar called with the limit -1 ran its SELECT with the limit 1000
C13_Testigo ==
  /\ ListarConSentencia /\ pc = "fin" /\ emitida /\ fallo = ""
  /\ op.limite = PyInt(-1) /\ LimiteUsado = PyInt(1000)

\* C14: in every operation called without a schema, the schema of the
\* statement and of every catalog lookup is "dbo" for SQL Server and
\* "public" for PostgreSQL; for MySQL/MariaDB the statement carries no
\* schema qualifier (and the lookup names no schema).
C14_EsquemaPorDefecto ==
  (op.nombre # "" /\ esquema_norm(op.esquema) = PyNone) =>
    LET esperado == IF dialecto = "sqlserver" THEN <<"d", "b", "o">>
                    ELSE IF dialecto = "postgresql"
                      THEN <<"p", "u", "b", "l", "i", "c">>
                    ELSE <<>>
    IN  /\ sql # SinSql => sql.esquema = esperado
        /\ \A i \in 1..Len(detectado) : detectado[i].esquema = esperado

\* SQL Server's eliminar, called without a schema, looked the key column up
\* in "dbo" and executed its DELETE on dbo.usuarios
C14_Testigo ==
  /\ pc = "fin" /\ dialecto = "sqlserver" /\ op.nombre = "eliminar"
  /\ op.esquema = PyNone
  /\ emitida /\ fallo = ""
  /\ sql.esquema = <<"d", "b", "o">>
  /\ Len(detectado) = 1 /\ detectado[1].esquema = <<"d", "b", "o">>

\* the statement of a keyed operation went through and matched no row
SinCoincidencia ==
  /\ pc = "fin" /\ emitida /\ fallo = ""
  /\ \/ op.nombre = "obtener_por_clave" /\ devuelto = FilasDevueltas(<<>>)
     \/ op.nombre \in {"actualizar", "eliminar"} /\ devuelto = Rowcount(0)

\* C15: at the gateway a keyed operation that matches no row ends
\* normally: obtener_por_clave returns the empty list, actualizar and
\* eliminar return 0, and no exception is raised.
C15_SinCoincidenciaEsNormal ==
  SinCoincidencia =>
    /\ resultado.exc = ""
    /\ resultado.val = IF op.nombre = "obtener_por_clave"
                       THEN [t |-> "list", v |-> <<>>]
                       ELSE PyInt(0)

C15_Testigo ==
  /\ SinCoincidencia
  /\ op.nombre = "actualizar" /\ op.via = "servicio"
  /\ resultado = Ok(PyInt(0))

\* a request through the endpoint whose statement went through
RespondidaTrasSentencia ==
  pc = "fin" /\ op.via = "http" /\ emitida /\ fallo = ""

\* the store matched nothing: no rows fetched, or no row affected
ResultadoVacio ==
  \/ devuelto.t = "filas" /\ Len(devuelto.v) = 0
  \/ devuelto.t = "rowcount" /\ devuelto.v = 0

\* C16: the endpoints answer an empty result asymmetrically: listar with
\* zero rows answers 204, obtener_por_clave with zero rows and
\* actualizar / eliminar with affected count 0 answer 404, and a non-empty
\* result or a positive count answers 200.
C16_VacioAsimetrico ==
  (RespondidaTrasSentencia
     /\ op.nombre \in {"listar", "obtener_por_clave", "actualizar",
                       "eliminar"}) =>
    respuesta.estado = IF ~ResultadoVacio THEN 200
                       ELSE IF op.nombre = "listar" THEN 204
                       ELSE 404

C16_Testigo ==
  /\ RespondidaTrasSentencia
  /\ op.nombre = "listar" /\ ResultadoVacio
  /\ respuesta.estado = 204

\* C17: in every statement of every dialect the text carries identifiers
\* only (schema, table, column names); no caller-supplied value is written
\* into it, and the row limit of a listing is a bound parameter.
C17_SoloParametrosEnlazados ==
  (sql # SinSql /\ pc \in {"ejecutar", "fin"}) =>
    /\ sql.top = PyNone
    /\ op.nombre = "listar" => P_limite \in Claves(valores)

\* the fields of the repository's payload that hold a string, in order
CamposDeTexto == SelectSeq(datos_finales, LAMBDA f : EsStr(f.v))

\* crear / actualizar went through every field of the payload
CamposEnlazados ==
  /\ op.nombre \in {"crear", "actualizar"}
  /\ sql # SinSql
  /\ idx > Len(datos_finales)

\* the loop of crear / actualizar binds field idx of the payload
EnlazaCampo == pc = "campos" /\ idx' = idx + 1

Nativos ==
  {"date", "datetime", "time", "Decimal", "UUID", "bytes", "timedelta"}

\* listar / obtener_por_clave returned the rows the store answered with
FilasRetornadas ==
  /\ pc = "fin" /\ op.nombre \in {"listar", "obtener_por_clave"}
  /\ devuelto.t = "filas" /\ resultado.exc = ""

\* C19: in every dialect every value of every row listar and
\* obtener_por_clave return is transport-safe: a date, a time of day or a
\* timestamp is its ISO-8601 string, a decimal is a float, a unique
\* identifier, binary data and a duration are strings, and no native value
\* of those kinds is returned as fetched.
C19_FilasEnFormaDeTransporte ==
  FilasRetornadas =>
    \A i \in 1..Len(devuelto.v) : \A j \in 1..Len(devuelto.v[i]) :
      LET n == devuelto.v[i][j].v
          r == resultado.val.v[i][j].v
      IN  /\ n.t \in {"date", "datetime", "time"} => r = PyStr(isoformat(n))
          /\ n.t = "Decimal" => r.t = "float"
          /\ n.t \in {"UUID", "bytes", "timedelta"} => r.t = "str"
          /\ r.t \notin Nativos

\* the logical type a catalog type stands for
TipoLogico(tipo) ==
  IF tipo \in {"int", "integer", "int4", "bigint", "int8", "smallint",
               "int2", "tinyint", "mediumint"} THEN "entero"
  ELSE IF tipo \in {"decimal", "numeric", "money", "smallmoney"}
    THEN "decimal"
  ELSE IF tipo \in {"float", "real", "double", "float4", "float8",
                    "double precision"} THEN "flotante"
  ELSE IF tipo \in {"bit", "boolean", "bool"} THEN "booleano"
  ELSE IF tipo \in {"uniqueidentifier", "uuid"} THEN "identificador"
  ELSE IF tipo = "date" THEN "fecha"
  ELSE IF tipo \in {"datetime", "datetime2", "smalldatetime", "timestamp",
                    "timestamp without time zone",
                    "timestamp with time zone"} THEN "marca"
  ELSE IF tipo = "time" THEN "hora"
  ELSE "texto"

Falsos == {<<"f", "a", "l", "s", "e">>, <<"0">>, <<"n", "o">>}

\* a string read as a value of logical type l: [ok, val], ok = FALSE when
\* the string is not a well-formed literal of l; numbers are read as the
\* number they denote
LeidoComo(l, s) ==
  IF l = "entero" THEN ParseInt(s)
  ELSE IF l = "decimal"
    THEN LET r == ParseDecimal(s)
         IN  IF r.ok THEN Exito(Normal(r.val.v[1], r.val.v[2], r.val.v[3]))
             ELSE Falla
  ELSE IF l = "flotante" THEN ParseFloat(s)
  ELSE IF l = "booleano"
    THEN (IF Lower(s) \in Verdaderos THEN Exito(PyBool(TRUE))
          ELSE IF Lower(s) \in Falsos THEN Exito(PyBool(FALSE))
          ELSE Falla)
  ELSE IF l = "identificador" THEN ParseUUID(s)
  ELSE IF l = "fecha" THEN ParseDate(s)
  ELSE IF l = "marca" THEN ParseDatetime(ReemplazarZ(s))
  ELSE IF l = "hora" THEN ParseTime(s)
  ELSE Exito(PyStr(s))

\* a value of a returned row read as a value of logical type l: a string
\* is parsed, a float on a decimal column is the number it names, any other
\* value stands for itself
ComoLogico(l, x) ==
  IF x.t = "str" THEN LeidoComo(l, x.v)
  ELSE IF l = "decimal" /\ x.t = "float" THEN Exito(x.v)
  ELSE Exito(x)

\* the number of significant digits of a well-formed decimal literal
CifrasSignificativas(s) ==
  LET r == ParseDecimal(s)
  IN  Len(Normal(r.val.v[1], r.val.v[2], 0 - Len(r.val.v[2]))[2])

\* obtener_por_clave coerced its key value, which is a well-formed literal
\* of the column's type, and returned the row holding the coerced value
IdaYVuelta ==
  /\ pc = "fin" /\ op.nombre = "obtener_por_clave" /\ resultado.exc = ""
  /\ sql.forma = "SELECT_CLAVE"
  /\ ClaveDetectada
  /\ devuelto = FilasDevueltas(<<FilaHallada>>)
  /\ TipoLogico(TipoDeClave) # "texto"
  /\ LeidoComo(TipoLogico(TipoDeClave), op.valor.v).ok

\* the key value, when the column is a decimal, has at most 15 significant
\* digits
DentroDePrecision ==
  TipoLogico(TipoDeClave) = "decimal" =>
    CifrasSignificativas(op.valor.v) <= 15

\* the value returned equals the request's string as the column's type
VuelveIgual ==
  LET l == TipoLogico(TipoDeClave)
      r == ComoLogico(l, resultado.val.v[1][1].v)
  IN  r.ok /\ r.val = LeidoComo(l, op.valor.v).val

InitFabrica == proveedor \in TodosLosProveedores /\ Arranque

NextFabrica ==
  \/ PedirListar
  \/ PedirEliminar
  \/ PedirVerificarContrasena
  \/ Conectar
  \/ \E amb \in Ambientes : DetectarTipoClave(amb)
  \/ \E filas \in FilasPosibles : EjecutarConsulta(filas)
  \/ \E rowcount \in 0..1 : EjecutarEscritura(rowcount)
  \/ \E fila \in FilasHash : EjecutarHash(fila)
  \/ \E amb \in Ambientes, causa \in Causas \cup {"ArgumentError"} :
       FallaEjecucion(amb, causa)
  \/ Cerrar

SpecFabrica == InitFabrica /\ [][NextFabrica]_vars

Registrado(p) == \E i \in 1..Len(Opciones) : Opciones[i] = p

\* the error names every registered provider
EnumeraOpciones(r) ==
  \A i \in 1..Len(Opciones) :
    \E j \in 1..Len(r.contexto) : r.contexto[j] = Opciones[i]

\* a request starts: the factory has picked (or refused) the repository
Construye == pc = "libre" /\ pc' # "libre"

\* C21: sqlserver, sqlserverexpress and localdb select the SQL Server
\* repository, postgres and postgresql the PostgreSQL one, mysql and
\* mariadb the MySQL/MariaDB one; with any other token the request fails
\* with an error that lists the registered tokens; and building the
\* repository creates no engine and opens no connection.
C21_Selector ==
  [][/\ proveedor \in {"sqlserver", "sqlserverexpress", "localdb"}
          => dialecto' = "sqlserver"
     /\ proveedor \in {"postgres", "postgresql"} => dialecto' = "postgresql"
     /\ proveedor \in {"mysql", "mariadb"} => dialecto' = "mysql"
     /\ Construye =>
          /\ engine' = "None" /\ conn' = "None"
          /\ conexiones' = conexiones /\ motores' = motores
          /\ viajes' = 0
          /\ ~Registrado(proveedor) =>
               /\ pc' = "fin"
               /\ resultado'.exc \in {"ValueError", "HTTPException"}
               /\ resultado'.exc = "ValueError" =>
                    EnumeraOpciones(resultado')]_vars

\* an alias picked the SQL Server repository, which has made no round trip
C21_Testigo ==
  /\ proveedor = "localdb" /\ dialecto = "sqlserver"
  /\ pc = "ejecutar" /\ op.nombre = "listar"
  /\ engine = "None" /\ conexiones = 0 /\ viajes = 0

\* an unregistered token was refused with the list of options
C21_TestigoSinRegistro ==
  /\ proveedor = "oracle" /\ pc = "fin"
  /\ resultado.exc = "ValueError" /\ EnumeraOpciones(resultado)
  /\ respuesta.estado = 400

\* C22: over the requests a process serves, at most one engine is ever
\* created: the first round trip creates it and every later one, of the
\* same or of a later request, reuses it.
C22_UnSoloMotor == motores <= 1

\* C23: every round trip runs on a connection scoped to it: once an
\* operation has returned or raised (and between requests) no connection
\* is open, whether the round trips succeeded or failed.
C23_SinConexionAlTerminar ==
  pc \in {"fin", "libre"} => conexiones = 0 /\ conn = "None"

\* an update whose lookups went through and whose statement failed
C23_Testigo ==
  /\ pc = "fin" /\ op.nombre = "actualizar"
  /\ viajes >= 2 /\ emitida /\ fallo = "DBAPIError"
  /\ resultado.exc = "RuntimeError"
  /\ conexiones = 0

\* the catalog type the lookup of string field i of the payload gave
TipoDeCampo(i) ==
  detectado[Cardinality({j \in 1..i : EsStr(datos_finales[j].v)})].tipo

\* what the loop binds for field i of the payload
ValorDeCampo(i) ==
  LET f == datos_finales[i]
  IN  IF EsStr(f.v) THEN convertir_valor(dialecto, f.v.v, TipoDeCampo(i)).val
      ELSE f.v

\* what the statement's WHERE is to be given: the key value, coerced where
\* the dialect looks the key column up
ValorDeClave ==
  IF ConvierteClave(dialecto)
    THEN convertir_valor(dialecto, op.valor.v,
                         detectado[Len(detectado)].tipo).val
    ELSE op.valor

\* C24: when actualizar executes its statement, the parameter of the SET
\* assignment of every payload column k holds the payload value of k
\* (coerced or hashed) and the parameter of the WHERE predicate holds the
\* key value, also for a column named valor_clave; neither binding
\* overwrites the other.
C24_EnlacesSeparados ==
  (op.nombre = "actualizar" /\ emitida) =>
    /\ Len(valores) = Len(datos_finales) + 1
    /\ \A i \in 1..Len(datos_finales) :
         DictGet(valores, NombreParam(dialecto, datos_finales[i].k))
           = ValorDeCampo(i)
    /\ DictGet(valores, P_valor_clave) = ValorDeClave

\* the code verificar_contrasena answers with: the status of the response,
\* or the first element of the pair the gateway returns (0 when it raises)
CodigoDeVerificar ==
  IF op.via = "http" THEN respuesta.estado
  ELSE IF resultado.exc = "" THEN resultado.val.v
  ELSE 0

\* C25: once the store has executed the SELECT of verificar_contrasena,
\* the answer is 404 only when no row matched the user value; when a row
\* matched, whatever its password column holds (NULL and the empty string
\* included), the answer is 200 or 401.
C25_NoEncontradoSoloSinFila ==
  HashConsultado =>
    /\ CodigoDeVerificar = 404 => ~leido.hay
    /\ leido.hay => CodigoDeVerificar \in {200, 401}

\* a row matched whose password column is NULL, and the answer was 404
C25_FilaConNuloDa404 ==
  ~(/\ HashConsultado /\ op.via = "http"
    /\ leido = [hay |-> TRUE, v |-> PyNone]
    /\ respuesta.estado = 404)

\* field i of the payload was replaced by its hash
Encriptado(i) == SeEncripta(op.datos[i], op.campos_encriptar)

\* C26: in crear and actualizar, the value bound for a field that was
\* replaced by its hash is exactly that hash, whatever type the catalog
\* reports for the column.
C26_HashEnlazadoIntacto ==
  (op.nombre \in {"crear", "actualizar"} /\ sql # SinSql) =>
    \A i \in 1..Len(datos_finales) :
      (Encriptado(i) /\ i < idx) =>
        DictGet(valores, NombreParam(dialecto, datos_finales[i].k))
          = datos_finales[i].v

\* the operations that write
Escrituras == {"crear", "actualizar", "eliminar"}

\* C27: crear, actualizar and eliminar execute their statement in a
\* transaction that is committed only when execution succeeds; when it
\* raises, the transaction is rolled back (the table keeps its contents)
\* and the operation raises RuntimeError.  listar, obtener_por_clave, the
\* hash fetch and the catalog lookups open no transaction.
C27_TransaccionDeEscritura ==
  /\ (pc = "fin" /\ op.nombre \in Escrituras /\ emitida) =>
       IF fallo = ""
         THEN transaccion = "confirmada" /\ resultado.exc = ""
         ELSE transaccion = "revertida" /\ resultado.exc = "RuntimeError"
  /\ transaccion = "confirmada" => (pc = "fin" /\ emitida /\ fallo = "")
  /\ transaccion # "ninguna" =>
       (op.nombre \in Escrituras /\ pc \in {"ejecutar", "fin"})
  /\ conn = "begin" <=> transaccion = "abierta"
  /\ conn = "connect" => transaccion = "ninguna"

\* a DELETE the store rejected: rolled back and raised
C27_Testigo ==
  /\ pc = "fin" /\ op.nombre = "eliminar" /\ emitida
  /\ fallo = "DBAPIError" /\ transaccion = "revertida"
  /\ resultado.exc = "RuntimeError"

\* the lookups a crear / actualizar makes before its statement
BusquedasPrevias ==
  Len(CamposDeTexto) +
    (IF op.nombre = "actualizar" /\ ConvierteClave(dialecto) THEN 1 ELSE 0)

\* C28: in one crear or actualizar the catalog lookups run one after the
\* other in the order of the payload's keys, then the lookup of the key
\* column where the dialect makes one; the connection of each is closed
\* before the next round trip starts, the write statement runs after all
\* of them, and the operation never holds more than one open connection.
C28_BusquedasEnOrden ==
  (op.nombre \in {"crear", "actualizar"} /\ sql # SinSql) =>
    /\ conexiones <= 1
    /\ conexiones = 1 <=> conn # "None"
    /\ Len(detectado) <= BusquedasPrevias
    /\ \A j \in 1..Len(detectado) :
         detectado[j].columna =
           IF j <= Len(CamposDeTexto) THEN CamposDeTexto[j].k
           ELSE op.nombre_clave.v
    /\ (emitida \/ conn = "begin") => Len(detectado) = BusquedasPrevias

\* an insert of two string fields: two lookups in payload order, then the
\* statement
C28_Testigo ==
  /\ pc = "fin" /\ op.nombre = "crear" /\ emitida /\ fallo = ""
  /\ Len(detectado) = 2
  /\ detectado[1].columna = C_email /\ detectado[2].columna = C_edad
  /\ viajes = 3 /\ conexiones = 0

(***************************************************************************)
(* Several operations in flight on one repository instance, as when a      *)
(* caller gathers them on one ServicioCrud.  They run on one event loop:   *)
(* a coroutine runs from where it is until it reaches a suspension point.  *)
(***************************************************************************)
\* the steps of an operation of one round trip: `if self._engine is None`,
\* `self._engine = create_async_engine(...)`, entering the `async with`,
\* `await conn.execute(...)`, leaving the `async with`
Programa == <<"probar", "asignar", "entrar", "ejecutar", "salir">>

\* an _obtener_engine that awaits between its test and its assignment
PuntosDeSuspensionConPrueba == {"probar", "entrar", "ejecutar"}

\* the steps at which the coroutine is suspended: acquiring the
\* connection and awaiting the statement.  `await self._obtener_engine()`
\* is none: the body of _obtener_engine has no await
PuntosDeSuspension == {"entrar", "ejecutar"}

\* the instance and the coroutine after the coroutine's step p
Efecto(p, e) ==
  IF p = "probar" THEN [e EXCEPT !.visto = (e.engine = "None")]
  ELSE IF p = "asignar"
    THEN (IF e.visto
            THEN [e EXCEPT !.engine = "creado", !.motores = @ + 1]
            ELSE e)
  ELSE IF p = "entrar" THEN [e EXCEPT !.conexiones = @ + 1]
  ELSE IF p = "salir" THEN [e EXCEPT !.conexiones = aexit(@)]
  ELSE e

\* the coroutine runs from step i until it is suspended or ends: the next
\* step it is to run, and the state it leaves
RECURSIVE Correr(_, _)
Correr(i, e) ==
  LET e1 == Efecto(Programa[i], e)
  IN  IF i = Len(Programa) \/ Programa[i] \in PuntosDeSuspension
        THEN [paso |-> i + 1, e |-> e1]
        ELSE Correr(i + 1, e1)

\* the event loop resumes coroutine c; `falla`: the statement it awaited
\* raised
Reanudar(c, falla) ==
  /\ corrutinas[c].paso <= Len(Programa)
  /\ falla => Programa[corrutinas[c].paso] = "salir"
  /\ cadena # "invalida"
  /\ LET r == Correr(corrutinas[c].paso,
                     [engine |-> engine, motores |-> motores,
                      conexiones |-> conexiones,
                      visto |-> corrutinas[c].visto])
     IN  /\ engine' = r.e.engine
         /\ motores' = r.e.motores
         /\ conexiones' = r.e.conexiones
         /\ corrutinas' =
              [corrutinas EXCEPT
                 ![c] = [paso |-> r.paso, visto |-> r.e.visto,
                         resultado |->
                           IF r.paso <= Len(Programa) THEN ""
                           ELSE IF falla THEN "RuntimeError" ELSE "ok"]]
  /\ cadena' = "valida"
  /\ UNCHANGED <<proveedor, dialecto, conn, transaccion, pc, op, viajes,
                 datos_finales, idx, valores, detectado, sql, emitida, fallo,
                 leido, devuelto, resultado, respuesta>>

\* the caller starts another operation in place of one that ended
Relanzar(c) ==
  /\ corrutinas[c].paso > Len(Programa)
  /\ corrutinas' = [corrutinas EXCEPT ![c] = CorrutinaNueva]
  /\ UNCHANGED <<proveedor, dialecto, motores, conexiones, conn, transaccion,
                 pc, op, engine, cadena, viajes, datos_finales, idx, valores,
                 detectado, sql, emitida, fallo, leido, devuelto, resultado,
                 respuesta>>

NextConcurrente ==
  \/ \E c \in Corrutinas, falla \in BOOLEAN : Reanudar(c, falla)
  \/ \E c \in Corrutinas : Relanzar(c)

SpecConcurrente == Init /\ [][NextConcurrente]_vars

\* C29: within one repository instance the engine is created at most
\* once, also with several operations in flight: no interleaving of the
\* coroutines creates a second engine.
C29_UnMotorPorInstancia ==
  /\ motores <= 1
  /\ (\E c \in Corrutinas : corrutinas[c].paso > 2) =>
       (engine = "creado" /\ motores = 1)

\* two operations of the instance hold a connection at once, on the one
\* engine
C29_Testigo ==
  /\ \E c, d \in Corrutinas :
       /\ c # d
       /\ corrutinas[c].paso \in {4, 5}
       /\ corrutinas[d].paso \in {4, 5}
  /\ conexiones >= 2
  /\ motores = 1

====
